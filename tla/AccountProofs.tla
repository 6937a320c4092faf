---------------------------- MODULE AccountProofs ----------------------------
(***************************************************************************)
(* The user's identity in the tabs of a browser and on the server, for     *)
(* every number of tabs, every set of nicks and looks and every bound.     *)
(*                                                                         *)
(* A connection has two phases, told apart by srv.hello: its greeting is   *)
(* the first message up, its answer the first one down (Connection).  The  *)
(* three properties then have an invariant each: the nick the server will  *)
(* have when it has read what is under way (NickInFlight), the ids that    *)
(* every copy of the session may name (IdsInFlight), and the look of each  *)
(* kind that a tab which is not stale in it would store (LooksInTabs).     *)
(***************************************************************************)
EXTENDS Account, SequenceTheorems, TLAPS

\* Nothing is under way without a connection, and no connection without a page.
Connection(t) ==
    /\ ~open[t] => ~online[t] /\ settings[t] = Nothing /\ nicking[t] = NoNick
    /\ ~online[t] => up[t] = <<>> /\ down[t] = <<>> /\ srv[t] = NoServer
    /\ online[t] /\ ~srv[t].hello => up[t] # <<>> /\ down[t] = <<>> /\ srv[t] = NoServer
    /\ \A i \in 1 .. Len(up[t]) : up[t][i].op = "hello" <=> i = 1 /\ ~srv[t].hello
    /\ \A i \in 2 .. Len(down[t]) : down[t][i].op = "error"

Base ==
    /\ TypeOK
    /\ \A t \in Tabs : Connection(t)
    /\ stored # Nothing => stored.id # NoId

LooksInTabs ==
    /\ ChoiceKept
    /\ \A t \in Tabs, k \in Kinds :
         open[t] /\ t \notin stale[k] => settings[t].look[k] = chosen[k]

\* The nick the server has once it has read what is under way, and the page when
\* it has read the answer, are the same, as long as no nick was refused.
NickInFlight(t) ==
    online[t] /\ ~early[t] =>
        /\ ~srv[t].hello => Len(up[t]) = 1 /\ up[t][1].nick = fullNick[t]
        /\ srv[t].hello /\ ~Answered(t) =>
             /\ up[t] = <<>>
             /\ refused[t] \/ srv[t].nick =
                  IF down[t][1].op = "session_restored" /\ down[t][1].nick # NoNick
                  THEN down[t][1].nick ELSE fullNick[t]
        /\ Answered(t) =>
             /\ up[t] = <<>> => refused[t] \/ srv[t].nick = fullNick[t]
             /\ up[t] # <<>> =>
                  LET m == up[t][Len(up[t])] IN
                  fullNick[t] = IF m.op = "nick" THEN m.nick ELSE NoNick

Gone == forgotten \ excused

LoggingOut(t) == \E i \in 1 .. Len(up[t]) : up[t][i].op = "logout"

\* The ids that a connection has, or will have, are that of its page, or excused;
\* the server's copy may also be about to be logged out.
IdsInFlight(t) ==
    /\ \A i \in 1 .. Len(up[t]) : up[t][i].op = "hello" =>
         up[t][i].id \in {settings[t].id} \cup excused
    /\ \A i \in 1 .. Len(down[t]) : down[t][i].op # "error" =>
         /\ down[t][i].id \in {settings[t].id} \cup excused
         /\ srv[t].id \in {down[t][i].id, NoId}
    /\ LoggingOut(t) \/ srv[t].id \in {settings[t].id, NoId} \cup excused

IdsKnown ==
    /\ excused \subseteq forgotten /\ forgotten \subseteq 1 .. ids
    /\ stored.id \in 0 .. ids /\ stored.id \notin Gone
    /\ \A t \in Tabs : settings[t].id \in 0 .. ids /\ settings[t].id \notin Gone
    /\ \A t \in Tabs : IdsInFlight(t)

NicksKnown == \A t \in Tabs : NickInFlight(t)

-----------------------------------------------------------------------------
LEMMA InitOK ==
    ASSUME AccountAssumption, Init
    PROVE  Base /\ LooksInTabs /\ NicksKnown /\ IdsKnown
  <1>1. Nothing \in Settings /\ NoNick \notin Good /\ Defaults \in [Kinds -> Looks]
    BY DEF Nothing, Settings, Defaults, NoId, AccountAssumption
  <1>2. NoServer \in [hello : BOOLEAN, id : 0..MaxIds, nick : Good \cup {NoNick}, hot : BOOLEAN]
    BY DEF NoServer, NoId, AccountAssumption
  <1>3. TypeOK
    <2>1. /\ stored \in Settings /\ ids \in 0..MaxIds
          /\ open \in [Tabs -> BOOLEAN] /\ online \in [Tabs -> BOOLEAN]
          /\ settings \in [Tabs -> Settings]
      BY <1>1 DEF Init, AccountAssumption
    <2>2. /\ fullNick \in [Tabs -> Nicks \cup {NoNick}]
          /\ nicking \in [Tabs -> Nicks \cup {NoNick}]
          /\ records \in [1..MaxIds -> Good \cup {NoNick, NoRecord}]
      BY DEF Init
    <2>3. up \in [Tabs -> Seq(Messages)] /\ down \in [Tabs -> Seq(Answers)]
      BY EmptySeq DEF Init
    <2>4. srv \in [Tabs -> [hello : BOOLEAN, id : 0..MaxIds, nick : Good \cup {NoNick},
                           hot : BOOLEAN]]
      BY <1>2 DEF Init
    <2>5. typed = 0 /\ sockets = 0 /\ forgotten = {} /\ excused = {} /\ undone = {}
          /\ stale \in [Kinds -> SUBSET Tabs] /\ chosen \in [Kinds -> Looks]
      BY <1>1 DEF Init
    <2>6. /\ refused \in [Tabs -> BOOLEAN] /\ early \in [Tabs -> BOOLEAN]
          /\ \A t \in Tabs : ~open[t] /\ ~online[t]
      BY DEF Init
    <2>7. {typed, sockets} \subseteq Nat
      BY <2>5
    <2>8. forgotten \cup excused \subseteq 1..MaxIds /\ undone \subseteq Kinds
      BY <2>5
    <2> QED
      BY <2>1, <2>2, <2>3, <2>4, <2>5, <2>6, <2>7, <2>8 DEF TypeOK
  <1>4. ASSUME NEW t \in Tabs
        PROVE  Connection(t) /\ NickInFlight(t)
    BY DEF Init, Connection, NickInFlight
  <1>5. ASSUME NEW t \in Tabs
        PROVE  IdsInFlight(t)
    BY DEF Init, IdsInFlight, NoServer
  <1>6. LooksInTabs
    BY DEF Init, LooksInTabs, ChoiceKept, Nothing
  <1>7. IdsKnown
    BY <1>5 DEF Init, IdsKnown, Gone, Nothing, NoId
  <1> QED
    BY <1>3, <1>4, <1>6, <1>7 DEF Base, NicksKnown, Init

-----------------------------------------------------------------------------
(* Types *)

\* What one tab is made of, its connection included.
Row(t) == <<open[t], settings[t], fullNick[t], nicking[t], online[t], up[t], down[t],
            srv[t], refused[t], early[t]>>

LEMMA MessagesTyped ==
    ASSUME AccountAssumption
    PROVE  /\ [op |-> "logout"] \in Messages /\ [op |-> "error"] \in Answers
           /\ \A n \in Nicks : [op |-> "nick", nick |-> n] \in Messages
           /\ \A i \in 1..MaxIds, n \in Nicks \cup {NoNick} :
                [op |-> "hello", id |-> i, nick |-> n] \in Messages
           /\ \A i \in 1..MaxIds, n \in Good \cup {NoNick} :
                [op |-> "session_restored", id |-> i, nick |-> n] \in Answers
           /\ \A i \in 1..MaxIds : [op |-> "session_new", id |-> i] \in Answers
           /\ \A m \in Messages :
                /\ m.op \in {"hello", "nick", "logout"}
                /\ m.op = "hello" => m.id \in 1..MaxIds /\ m.nick \in Nicks \cup {NoNick}
                /\ m.op = "nick" => m.nick \in Nicks
           /\ \A a \in Answers :
                /\ a.op \in {"session_restored", "session_new", "error"}
                /\ a.op # "error" => a.id \in 1..MaxIds
                /\ a.op = "session_restored" => a.nick \in Good \cup {NoNick}
  BY DEF Messages, Answers

LEMMA SendTyped ==
    ASSUME TypeOK, NEW t \in Tabs, NEW m \in Messages, Send(t, m)
    PROVE  up' \in [Tabs -> Seq(Messages)]
  <1>1. up \in [Tabs -> Seq(Messages)]
    BY DEF TypeOK
  <1>2. Append(up[t], m) \in Seq(Messages)
    BY <1>1, AppendProperties
  <1> QED
    BY <1>1, <1>2 DEF Send

LEMMA TypedCounted ==
    ASSUME TypeOK, Type
    PROVE  typed' \in Nat
  BY DEF TypeOK, Type

LEMMA SaveTyped ==
    ASSUME TypeOK, NEW t \in Tabs, NEW s \in Settings, Save(t, s)
    PROVE  settings' \in [Tabs -> Settings] /\ stored' \in Settings /\ undone' \subseteq Kinds
  BY DEF Save, Undoing, TypeOK

LEMMA SetNickTyped ==
    ASSUME AccountAssumption, Base, NEW t \in Tabs, NEW n \in Nicks, open[t], SetNick(t, n)
    PROVE  /\ settings' \in [Tabs -> Settings] /\ stored' \in Settings /\ undone' \subseteq Kinds
           /\ up' \in [Tabs -> Seq(Messages)] /\ fullNick' \in [Tabs -> Nicks \cup {NoNick}]
           /\ early' \in [Tabs -> BOOLEAN]
           /\ \A u \in Tabs : settings'[u].id = settings[u].id
  <1> DEFINE s == [settings[t] EXCEPT !.nick = n]
  <1>1. settings[t] \in Settings /\ settings \in [Tabs -> Settings] /\ TypeOK
    BY DEF Base, TypeOK
  <1>2. s \in Settings /\ s.id = settings[t].id
    BY <1>1 DEF Settings
  <1>3. Save(t, s) /\ Send(t, [op |-> "nick", nick |-> n])
    BY DEF SetNick
  <1> HIDE DEF s
  <1>4. settings' = [settings EXCEPT ![t] = s]
    BY <1>3 DEF Save
  <1>5. fullNick' \in [Tabs -> Nicks \cup {NoNick}]
    BY <1>1 DEF SetNick, TypeOK
  <1>6. early' \in [Tabs -> BOOLEAN]
    <2> DEFINE b == early[t] \/ (online[t] /\ ~Answered(t))
    <2>1. b \in BOOLEAN /\ early' = [early EXCEPT ![t] = b] /\ early \in [Tabs -> BOOLEAN]
      BY <1>1 DEF SetNick, NoteEarly, TypeOK
    <2> HIDE DEF b
    <2> QED
      BY <2>1
  <1> QED
    BY <1>1, <1>2, <1>3, <1>4, <1>5, <1>6, SaveTyped, SendTyped, MessagesTyped

\* The page's own steps.
LEMMA TypePage ==
    ASSUME AccountAssumption, Base, NEW t \in Tabs,
           \/ Load(t) \/ Connect(t) \/ NickHashed(t) \/ TypeLogout(t)
           \/ \E n \in Nicks : TypeNick(t, n)
           \/ \E k \in Kinds, l \in Looks : TypeLook(t, k, l)
    PROVE  TypeOK'
  <1> TypeOK /\ Connection(t) /\ (stored # Nothing => stored.id # NoId)
    BY DEF Base
  <1> USE DEF tabVars, netVars, srvVars, noteVars
  <1>1. CASE Load(t)
    <2>1. loadSettings \in Settings /\ loadSettings.id # NoId /\ ids' \in 0 .. MaxIds
      BY <1>1 DEF Load, loadSettings, Defaults, TypeOK, Settings, AccountAssumption, NoId
    <2>2. /\ open' = [open EXCEPT ![t] = TRUE] /\ stored' = loadSettings
          /\ settings' = [settings EXCEPT ![t] = loadSettings] /\ stale' \in [Kinds -> SUBSET Tabs]
          /\ UNCHANGED <<fullNick, nicking, netVars, srvVars, typed, refused, early,
                         forgotten, excused, chosen, undone>>
      BY <1>1 DEF Load, TypeOK
    <2> HIDE DEF loadSettings
    <2> QED
      BY <2>1, <2>2 DEF TypeOK
  <1>2. CASE Connect(t)
    <2> DEFINE m == [op |-> "hello", id |-> settings[t].id, nick |-> fullNick[t]]
    <2>1. m \in Messages
      <3>1. settings[t].id \in 1 .. MaxIds /\ fullNick[t] \in Nicks \cup {NoNick}
        BY <1>2 DEF Connect, TypeOK, Settings, NoId, AccountAssumption
      <3> QED
        BY <3>1, MessagesTyped
    <2>2. <<m>> \in Seq(Messages)
      BY <2>1
    <2>3. up' = [up EXCEPT ![t] = <<m>>]
      BY <1>2 DEF Connect
    <2> HIDE DEF m
    <2>4. up' \in [Tabs -> Seq(Messages)]
      BY <2>2, <2>3 DEF TypeOK
    <2> QED
      BY <1>2, <2>4 DEF Connect, TypeOK
  <1>3. ASSUME NEW n \in Nicks, open[t], SetNick(t, n), nicking' \in [Tabs -> Nicks \cup {NoNick}],
               typed' \in Nat,
               \A u \in Tabs : nicking'[u] # NoNick => nicking[u] # NoNick
        PROVE  TypeOK'
    <2>1. UNCHANGED <<ids, open, online, down, sockets, srvVars, refused, forgotten, excused,
                   chosen, stale>>
      BY <1>3 DEF SetNick
    <2> QED
      BY <1>3, <2>1, SetNickTyped DEF TypeOK
  <1>4. ASSUME NEW n \in Nicks, TypeNick(t, n)
        PROVE  TypeOK'
    <2>1. typed' \in Nat /\ open[t]
      BY <1>4, TypedCounted DEF TypeNick, parseTripcode
    <2>2. CASE SetNick(t, n) /\ UNCHANGED nicking
      BY <1>3, <2>1, <2>2 DEF TypeOK
    <2>3. CASE ~(SetNick(t, n) /\ UNCHANGED nicking)
      <3>1. nicking' \in [Tabs -> Nicks \cup {NoNick}]
        BY <1>4, <2>3 DEF TypeNick, parseTripcode, TypeOK
      <3>2. UNCHANGED <<stored, ids, open, settings, fullNick, netVars, srvVars, noteVars>>
        BY <1>4, <2>3 DEF TypeNick, parseTripcode
      <3> QED
        BY <2>1, <3>1, <3>2 DEF TypeOK
    <2> QED
      BY <2>2, <2>3
  <1>5. CASE NickHashed(t)
    <2>1. nicking[t] \in Nicks /\ open[t]
      BY <1>5 DEF NickHashed, TypeOK, Connection
    <2>2. nicking' \in [Tabs -> Nicks \cup {NoNick}]
      BY <1>5 DEF NickHashed, TypeOK
    <2>3. \A u \in Tabs : nicking'[u] # NoNick => nicking[u] # NoNick
      BY <1>5 DEF NickHashed, TypeOK
    <2> QED
      BY <1>3, <1>5, <2>1, <2>2, <2>3 DEF NickHashed, TypeOK
  <1>6. CASE TypeLogout(t)
    <2>1. up' \in [Tabs -> Seq(Messages)]
      BY <1>6, MessagesTyped, SendTyped DEF TypeLogout
    <2>2. early' \in [Tabs -> BOOLEAN]
      <3> DEFINE b == early[t] \/ (online[t] /\ ~Answered(t))
      <3>1. b \in BOOLEAN /\ early' = [early EXCEPT ![t] = b] /\ early \in [Tabs -> BOOLEAN]
        BY <1>6 DEF TypeLogout, NoteEarly, TypeOK
      <3> HIDE DEF b
      <3> QED
        BY <3>1
    <2>3. /\ stored' \in Settings /\ settings' \in [Tabs -> Settings] /\ ids' \in 0 .. MaxIds
          /\ \A u \in Tabs : open[u] => settings'[u].id # NoId
      BY <1>6 DEF TypeLogout, NewSettings, Nothing, Defaults, Settings, TypeOK, NoId,
             AccountAssumption
    <2>4. forgotten' \cup excused' \subseteq 1 .. MaxIds
      <3>1. settings[t].id \in 1 .. MaxIds
        BY <1>6 DEF TypeLogout, TypeOK, Settings, NoId, AccountAssumption
      <3> QED
        BY <1>6, <3>1 DEF TypeLogout, TypeOK
    <2>5. /\ typed' \in Nat /\ fullNick' \in [Tabs -> Nicks \cup {NoNick}]
          /\ stale' \in [Kinds -> SUBSET Tabs] /\ undone' \subseteq Kinds
          /\ chosen' \in [Kinds -> Looks]
      BY <1>6, TypedCounted DEF TypeLogout, Defaults, TypeOK, AccountAssumption
    <2>6. UNCHANGED <<open, nicking, online, down, sockets, srvVars, refused>>
      BY <1>6 DEF TypeLogout
    <2> QED
      BY <2>1, <2>2, <2>3, <2>4, <2>5, <2>6 DEF TypeOK
  <1>7. ASSUME NEW k \in Kinds, NEW l \in Looks, TypeLook(t, k, l)
        PROVE  TypeOK'
    <2>1. /\ settings' \in [Tabs -> Settings] /\ stored' \in Settings
          /\ \A u \in Tabs : settings'[u].id = settings[u].id
      <3> DEFINE s == [settings[t] EXCEPT !.look[k] = l]
      <3>1. settings \in [Tabs -> Settings] /\ settings[t] \in Settings
        BY DEF TypeOK
      <3>2. s \in Settings /\ s.id = settings[t].id
        BY <3>1 DEF Settings
      <3>3. settings' = [settings EXCEPT ![t] = s] /\ stored' = settings'[t]
        BY <1>7, <3>1 DEF TypeLook, applyLook
      <3> HIDE DEF s, Settings
      <3> QED
        BY <3>1, <3>2, <3>3
    <2>2. /\ undone' \subseteq Kinds /\ typed' \in Nat
          /\ stale' \in [Kinds -> SUBSET Tabs] /\ chosen' \in [Kinds -> Looks]
      BY <1>7, TypedCounted DEF TypeLook, applyLook, Undoing, TypeOK
    <2>3. UNCHANGED <<ids, open, fullNick, nicking, netVars, srvVars, refused, early,
                      forgotten, excused>>
      BY <1>7 DEF TypeLook
    <2> QED
      BY <2>1, <2>2, <2>3 DEF TypeOK
  <1> QED
    BY <1>1, <1>2, <1>4, <1>5, <1>6, <1>7

LEMMA HeadDown ==
    ASSUME TypeOK, NEW t \in Tabs, NEW op \in {"session_restored", "session_new", "error"},
           Handle(t, op)
    PROVE  /\ down[t] \in Seq(Answers) /\ down[t] # <<>> /\ Len(down[t]) \in Nat \ {0}
           /\ Head(down[t]) = down[t][1] /\ Head(down[t]) \in Answers /\ down[t][1].op = op
           /\ down' = [down EXCEPT ![t] = Tail(down[t])] /\ down' \in [Tabs -> Seq(Answers)]
           /\ Len(down'[t]) = Len(down[t]) - 1
           /\ \A i \in 1 .. Len(down'[t]) : down'[t][i] = down[t][i + 1]
  <1>1. /\ down[t] \in Seq(Answers) /\ down[t] # <<>>
        /\ down' = [down EXCEPT ![t] = Tail(down[t])] /\ Head(down[t]).op = op
        /\ down \in [Tabs -> Seq(Answers)]
    BY DEF TypeOK, Handle
  <1>2. /\ Head(down[t]) \in Answers /\ Tail(down[t]) \in Seq(Answers)
        /\ Len(Tail(down[t])) = Len(down[t]) - 1
        /\ \A i \in 1 .. Len(Tail(down[t])) : Tail(down[t])[i] = down[t][i + 1]
    BY <1>1, HeadTailProperties
  <1>3. Head(down[t]) = down[t][1] /\ Len(down[t]) \in Nat \ {0}
    BY <1>1, EmptySeq, LenProperties
  <1>4. down'[t] = Tail(down[t]) /\ down' \in [Tabs -> Seq(Answers)]
    BY <1>1, <1>2
  <1> QED
    BY <1>1, <1>2, <1>3, <1>4

LEMMA HeadUp ==
    ASSUME TypeOK, NEW t \in Tabs, NEW op \in {"hello", "nick", "logout"}, Receive(t, op)
    PROVE  /\ up[t] \in Seq(Messages) /\ up[t] # <<>> /\ Len(up[t]) \in Nat \ {0}
           /\ Head(up[t]) = up[t][1] /\ Head(up[t]) \in Messages /\ up[t][1].op = op
           /\ up' = [up EXCEPT ![t] = Tail(up[t])] /\ up' \in [Tabs -> Seq(Messages)]
           /\ Len(up'[t]) = Len(up[t]) - 1
           /\ \A i \in 1 .. Len(up'[t]) : up'[t][i] = up[t][i + 1]
  <1>1. /\ up[t] \in Seq(Messages) /\ up[t] # <<>>
        /\ up' = [up EXCEPT ![t] = Tail(up[t])] /\ Head(up[t]).op = op
        /\ up \in [Tabs -> Seq(Messages)]
    BY DEF TypeOK, Receive
  <1>2. /\ Head(up[t]) \in Messages /\ Tail(up[t]) \in Seq(Messages)
        /\ Len(Tail(up[t])) = Len(up[t]) - 1
        /\ \A i \in 1 .. Len(Tail(up[t])) : Tail(up[t])[i] = up[t][i + 1]
    BY <1>1, HeadTailProperties
  <1>3. Head(up[t]) = up[t][1] /\ Len(up[t]) \in Nat \ {0}
    BY <1>1, EmptySeq, LenProperties
  <1>4. up'[t] = Tail(up[t]) /\ up' \in [Tabs -> Seq(Messages)]
    BY <1>1, <1>2
  <1> QED
    BY <1>1, <1>2, <1>3, <1>4

LEMMA TellTyped ==
    ASSUME TypeOK, NEW t \in Tabs, NEW m \in Answers, Tell(t, m)
    PROVE  /\ down' \in [Tabs -> Seq(Answers)] /\ down'[t] = Append(down[t], m)
           /\ Len(down[t]) \in Nat /\ Len(down'[t]) = Len(down[t]) + 1
           /\ \A i \in 1 .. Len(down[t]) : down'[t][i] = down[t][i]
           /\ down'[t][Len(down[t]) + 1] = m
  <1>1. down \in [Tabs -> Seq(Answers)] /\ down' = [down EXCEPT ![t] = Append(down[t], m)]
    BY DEF TypeOK, Tell
  <1>2. down[t] \in Seq(Answers)
    BY <1>1
  <1>3. /\ Append(down[t], m) \in Seq(Answers)
        /\ Len(Append(down[t], m)) = Len(down[t]) + 1
        /\ \A i \in 1 .. Len(down[t]) : Append(down[t], m)[i] = down[t][i]
        /\ Append(down[t], m)[Len(down[t]) + 1] = m
    BY <1>2, AppendProperties
  <1>4. Len(down[t]) \in Nat
    BY <1>2, LenProperties
  <1>5. down'[t] = Append(down[t], m) /\ down' \in [Tabs -> Seq(Answers)]
    BY <1>1, <1>3
  <1> QED
    BY <1>3, <1>4, <1>5

\* What a message sent, if the socket is open, adds to those under way.
LEMMA SendAppends ==
    ASSUME TypeOK, NEW t \in Tabs, NEW m \in Messages, Send(t, m), online[t]
    PROVE  /\ up'[t] = Append(up[t], m) /\ Len(up[t]) \in Nat
           /\ Len(up'[t]) = Len(up[t]) + 1
           /\ \A i \in 1 .. Len(up[t]) : up'[t][i] = up[t][i]
           /\ up'[t][Len(up[t]) + 1] = m
  <1>1. up \in [Tabs -> Seq(Messages)] /\ up' = [up EXCEPT ![t] = Append(up[t], m)]
    BY DEF TypeOK, Send
  <1>2. up[t] \in Seq(Messages)
    BY <1>1
  <1>3. /\ Len(Append(up[t], m)) = Len(up[t]) + 1
        /\ \A i \in 1 .. Len(up[t]) : Append(up[t], m)[i] = up[t][i]
        /\ Append(up[t], m)[Len(up[t]) + 1] = m
    BY <1>2, AppendProperties
  <1>4. Len(up[t]) \in Nat
    BY <1>2, LenProperties
  <1>5. up'[t] = Append(up[t], m)
    BY <1>1
  <1> QED
    BY <1>3, <1>4, <1>5

\* The answers, handled by the page.
LEMMA TypeAnswer ==
    ASSUME AccountAssumption, Base, NEW t \in Tabs,
           session_restored(t) \/ session_new(t) \/ error(t)
    PROVE  TypeOK'
  <1> TypeOK
    BY DEF Base
  <1> USE DEF tabVars, netVars, srvVars, noteVars
  <1>1. CASE error(t)
    <2>1. down' \in [Tabs -> Seq(Answers)]
      BY <1>1, HeadDown DEF error
    <2> QED
      BY <1>1, <2>1 DEF error, handleFrame, TypeOK
  <1>2. CASE session_restored(t) \/ session_new(t)
    <2> DEFINE a == Head(down[t])
               s == [settings[t] EXCEPT !.id = a.id]
    <2>1. PICK op \in {"session_restored", "session_new"} : Handle(t, op) /\ a.op = op
      BY <1>2 DEF session_restored, session_new, Handle
    <2>2. down' \in [Tabs -> Seq(Answers)] /\ a \in Answers
      BY <2>1, HeadDown
    <2>3. a.id \in 1 .. MaxIds
      BY <2>1, <2>2, MessagesTyped
    <2>4. s \in Settings /\ s.id = a.id
      <3>1. settings[t] \in Settings /\ a.id \in 0 .. MaxIds
        BY <2>3 DEF TypeOK, AccountAssumption
      <3> HIDE DEF a
      <3> QED
        BY <3>1 DEF Settings
    <2>5. Save(t, s)
      BY <1>2 DEF session_restored, session_new
    <2>6. fullNick' \in [Tabs -> Nicks \cup {NoNick}]
      <3>1. CASE session_new(t)
        BY <3>1 DEF session_new, TypeOK
      <3>2. CASE session_restored(t)
        <4>1. a.nick \in Good \cup {NoNick}
          BY <3>2, <2>2, MessagesTyped DEF session_restored, Handle
        <4>2. fullNick' \in {fullNick, [fullNick EXCEPT ![t] = a.nick]}
          BY <3>2 DEF session_restored
        <4> HIDE DEF a
        <4> QED
          BY <4>1, <4>2 DEF TypeOK, Nicks
      <3> QED
        BY <1>2, <3>1, <3>2
    <2>7. UNCHANGED <<ids, open, nicking, online, up, sockets, srvVars, typed,
                           refused, early, forgotten, excused, chosen, stale>>
      BY <1>2 DEF session_restored, session_new, handleFrame
    <2> HIDE DEF a, s
    <2>8. settings' \in [Tabs -> Settings] /\ stored' \in Settings /\ undone' \subseteq Kinds
      BY <2>4, <2>5, SaveTyped
    <2>9. \A u \in Tabs : open[u] => settings'[u].id # NoId
      BY <2>3, <2>4, <2>5 DEF Save, TypeOK, NoId, AccountAssumption
    <2> QED
      BY <2>2, <2>6, <2>7, <2>8, <2>9 DEF TypeOK
  <1> QED
    BY <1>1, <1>2

\* What both ways of handleHello have in common, and what the page can tell from
\* the answer.
LEMMA GreetingEffect ==
    ASSUME AccountAssumption, TypeOK, NEW t \in Tabs, HelloRestored(t) \/ HelloNew(t)
    PROVE  /\ Receive(t, "hello") /\ up[t][1] \in Messages /\ up[t][1].op = "hello"
           /\ \E n \in Good \cup {NoNick}, a \in Answers, b \in BOOLEAN :
                /\ srv' = [srv EXCEPT ![t] =
                             [hello |-> TRUE, id |-> up[t][1].id, nick |-> n, hot |-> FALSE]]
                /\ records' = [records EXCEPT ![up[t][1].id] = n]
                /\ Tell(t, a) /\ a.op # "error" /\ a.id = up[t][1].id
                /\ refused' = [refused EXCEPT ![t] = b]
                /\ b \/ n = IF a.op = "session_restored" /\ a.nick # NoNick
                            THEN a.nick ELSE up[t][1].nick
           /\ serverFrame
  <1> DEFINE m == up[t][1]
  <1>1. Receive(t, "hello") /\ m \in Messages /\ Head(up[t]) = m /\ m.op = "hello"
    BY HeadUp DEF HelloRestored, HelloNew
  <1>2. m.id \in 1 .. MaxIds /\ m.nick \in Good \cup Reserved \cup {NoNick}
    BY <1>1, MessagesTyped DEF Nicks
  <1>3. CASE HelloRestored(t)
    <2> DEFINE n == IF m.nick \in Good THEN m.nick ELSE records[m.id]
               a == [op |-> "session_restored", id |-> m.id, nick |-> n]
               b == m.nick \in Reserved /\ n = NoNick
    <2>1. /\ records[m.id] # NoRecord /\ Greeted(t, m.id, n) /\ Tell(t, a)
          /\ refused' = [refused EXCEPT ![t] = b]
      BY <1>1, <1>3 DEF HelloRestored
    <2>2. n \in Good \cup {NoNick}
      BY <1>2, <2>1 DEF TypeOK
    <2>3. a \in Answers /\ a.op = "session_restored" /\ a.id = m.id /\ a.nick = n
      BY <1>2, <2>2, MessagesTyped
    <2>4. b \in BOOLEAN
      OBVIOUS
    <2>5. b \/ n = IF n # NoNick THEN n ELSE m.nick
      BY <1>2, <2>2
    <2> HIDE DEF m, n, a, b
    <2>6. b \/ n = IF a.op = "session_restored" /\ a.nick # NoNick THEN a.nick ELSE m.nick
      BY <2>3, <2>5
    <2>7. a.op # "error"
      BY <2>3
    <2> QED
      BY <1>1, <2>1, <2>2, <2>3, <2>4, <2>6, <2>7 DEF Greeted, m
  <1>4. CASE HelloNew(t)
    <2> DEFINE n == IF m.nick \in Good THEN m.nick ELSE NoNick
               a == [op |-> "session_new", id |-> m.id]
               b == m.nick \in Reserved
    <2>1. Greeted(t, m.id, n) /\ Tell(t, a) /\ refused' = [refused EXCEPT ![t] = b]
      BY <1>1, <1>4 DEF HelloNew
    <2>2. n \in Good \cup {NoNick} /\ b \in BOOLEAN /\ (b \/ n = m.nick)
      BY <1>2
    <2>3. a \in Answers /\ a.op = "session_new" /\ a.id = m.id
      BY <1>2, MessagesTyped
    <2> HIDE DEF m, n, a, b
    <2>4. b \/ n = IF a.op = "session_restored" /\ a.nick # NoNick THEN a.nick ELSE m.nick
      BY <2>2, <2>3
    <2>5. a.op # "error"
      BY <2>3
    <2> QED
      BY <1>1, <2>1, <2>2, <2>3, <2>4, <2>5 DEF Greeted, m
  <1> QED
    BY <1>3, <1>4

LEMMA WithNickTyped ==
    ASSUME TypeOK, NEW i, NEW n \in Good \cup {NoNick}
    PROVE  WithNick(i, n) \in [1..MaxIds -> Good \cup {NoNick, NoRecord}]
  BY DEF TypeOK, WithNick

\* The handlers of the server, and the end of a connection.
LEMMA TypeServe ==
    ASSUME AccountAssumption, Base, NEW t \in Tabs, Serve(t)
    PROVE  TypeOK'
  <1> TypeOK
    BY DEF Base
  <1> USE DEF tabVars, netVars, srvVars, noteVars, serverFrame
  <1> DEFINE Srv == [hello : BOOLEAN, id : 0..MaxIds, nick : Good \cup {NoNick},
                     hot : BOOLEAN]
  <1>0. srv \in [Tabs -> Srv] /\ srv[t] \in Srv
    BY DEF TypeOK
  <1>6. ASSUME NEW n \in Good, srv' = [srv EXCEPT ![t].nick = n, ![t].hot = TRUE]
        PROVE  srv' \in [Tabs -> Srv]
    <2> DEFINE r == [srv[t] EXCEPT !.nick = n, !.hot = TRUE]
    <2>1. r \in Srv
      BY <1>0
    <2>2. srv' = [srv EXCEPT ![t] = r]
      BY <1>0, <1>6
    <2> HIDE DEF r, Srv
    <2> QED
      BY <1>0, <2>1, <2>2
  <1>7. ASSUME srv' = [srv EXCEPT ![t].id = NoId, ![t].nick = NoNick]
        PROVE  srv' \in [Tabs -> Srv]
    <2> DEFINE r == [srv[t] EXCEPT !.id = NoId, !.nick = NoNick]
    <2>0. NoId \in 0 .. MaxIds
      BY DEF NoId, AccountAssumption
    <2>1. r \in Srv
      BY <1>0, <2>0
    <2>2. srv' = [srv EXCEPT ![t] = r]
      BY <1>0, <1>7
    <2> HIDE DEF r, Srv
    <2> QED
      BY <1>0, <2>1, <2>2
  <1>8. ASSUME srv' = [srv EXCEPT ![t].hot = FALSE]
        PROVE  srv' \in [Tabs -> Srv]
    <2> DEFINE r == [srv[t] EXCEPT !.hot = FALSE]
    <2>1. r \in Srv
      BY <1>0
    <2>2. srv' = [srv EXCEPT ![t] = r]
      BY <1>0, <1>8
    <2> HIDE DEF r, Srv
    <2> QED
      BY <1>0, <2>1, <2>2
  <1>1. CASE HelloRestored(t) \/ HelloNew(t)
    <2>1. PICK n \in Good \cup {NoNick}, a \in Answers, b \in BOOLEAN :
                /\ srv' = [srv EXCEPT ![t] =
                             [hello |-> TRUE, id |-> up[t][1].id, nick |-> n, hot |-> FALSE]]
                /\ records' = [records EXCEPT ![up[t][1].id] = n]
                /\ Tell(t, a)
                /\ refused' = [refused EXCEPT ![t] = b]
      BY <1>1, GreetingEffect
    <2>2. up[t][1].id \in 0 .. MaxIds /\ up' \in [Tabs -> Seq(Messages)]
      BY <1>1, GreetingEffect, MessagesTyped, HeadUp DEF AccountAssumption
    <2>3. down' \in [Tabs -> Seq(Answers)]
      BY <2>1, TellTyped
    <2>4. srv' \in [Tabs -> Srv]
      BY <2>1, <2>2 DEF TypeOK
    <2>5. records' \in [1..MaxIds -> Good \cup {NoNick, NoRecord}]
      BY <2>1 DEF TypeOK
    <2>6. refused' \in [Tabs -> BOOLEAN]
      BY <2>1 DEF TypeOK
    <2>7. serverFrame
      BY <1>1, GreetingEffect
    <2> QED
      BY <2>2, <2>3, <2>4, <2>5, <2>6, <2>7 DEF TypeOK
  <1>2. CASE ServeNick(t)
    <2> DEFINE n == Head(up[t]).nick
    <2>1. up' \in [Tabs -> Seq(Messages)] /\ n \in Good
      BY <1>2, HeadUp DEF ServeNick
    <2>2. srv' = [srv EXCEPT ![t].nick = n, ![t].hot = TRUE]
          /\ records' = WithNick(srv[t].id, n) /\ refused' = [refused EXCEPT ![t] = FALSE]
      BY <1>2 DEF ServeNick
    <2>3. UNCHANGED down /\ serverFrame
      BY <1>2 DEF ServeNick
    <2> HIDE DEF n
    <2>4. srv' \in [Tabs -> Srv]
      BY <1>6, <2>1, <2>2
    <2>5. records' \in [1..MaxIds -> Good \cup {NoNick, NoRecord}]
      BY <2>1, <2>2, WithNickTyped
    <2>6. refused' \in [Tabs -> BOOLEAN]
      BY <2>2 DEF TypeOK
    <2> QED
      BY <2>1, <2>3, <2>4, <2>5, <2>6 DEF TypeOK
  <1>3. CASE RefuseNick(t)
    <2>1. up' \in [Tabs -> Seq(Messages)] /\ down' \in [Tabs -> Seq(Answers)]
      BY <1>3, HeadUp, TellTyped, MessagesTyped DEF RefuseNick
    <2>2. refused' \in [Tabs -> BOOLEAN]
      BY <1>3 DEF RefuseNick, TypeOK
    <2> QED
      BY <1>3, <2>1, <2>2 DEF RefuseNick, TypeOK
  <1>4. CASE ServeLogout(t)
    <2>1. up' \in [Tabs -> Seq(Messages)]
      BY <1>4, HeadUp DEF ServeLogout
    <2>2. srv' \in [Tabs -> Srv]
      BY <1>4, <1>7 DEF ServeLogout
    <2>3. records' \in [1..MaxIds -> Good \cup {NoNick, NoRecord}]
      BY <1>4 DEF ServeLogout, TypeOK
    <2>4. refused' \in [Tabs -> BOOLEAN]
      BY <1>4 DEF ServeLogout, TypeOK
    <2>5. UNCHANGED down /\ serverFrame
      BY <1>4 DEF ServeLogout
    <2> QED
      BY <2>1, <2>2, <2>3, <2>4, <2>5 DEF TypeOK
  <1>5. CASE TwoSecondsPass(t)
    <2>1. srv' \in [Tabs -> Srv]
      BY <1>5, <1>8 DEF TwoSecondsPass
    <2> QED
      BY <1>5, <2>1 DEF TwoSecondsPass, TypeOK
  <1> QED
    BY <1>1, <1>2, <1>3, <1>4, <1>5 DEF Serve

LEMMA TypeLeave ==
    ASSUME AccountAssumption, Base, NEW t \in Tabs, Lose(t) \/ CloseTab(t)
    PROVE  TypeOK'
  <1> TypeOK /\ Disconnected(t)
    BY DEF Base, Lose, CloseTab
  <1> USE DEF tabVars
  <1>1. NoServer \in [hello : BOOLEAN, id : 0..MaxIds, nick : Good \cup {NoNick}, hot : BOOLEAN]
    BY DEF NoServer, NoId, AccountAssumption
  <1>2. /\ online' \in [Tabs -> BOOLEAN]
        /\ srv' \in [Tabs -> [hello : BOOLEAN, id : 0..MaxIds, nick : Good \cup {NoNick},
                              hot : BOOLEAN]]
        /\ refused' \in [Tabs -> BOOLEAN] /\ early' \in [Tabs -> BOOLEAN]
    BY <1>1 DEF Disconnected, TypeOK
  <1>3. up' \in [Tabs -> Seq(Messages)] /\ down' \in [Tabs -> Seq(Answers)]
    BY EmptySeq DEF Disconnected, TypeOK
  <1>4. records' \in [1..MaxIds -> Good \cup {NoNick, NoRecord}]
    <2>1. srv[t].nick \in Good \cup {NoNick}
      BY DEF TypeOK
    <2> QED
      BY <2>1, WithNickTyped DEF Disconnected, TypeOK
  <1>5. \A u \in Tabs : online'[u] => online[u] /\ u # t
    BY DEF Disconnected, TypeOK
  <1>6. UNCHANGED <<stored, ids, sockets, typed, forgotten, excused, chosen, undone>>
    BY DEF Disconnected
  <1>7. CASE Lose(t)
    BY <1>2, <1>3, <1>4, <1>5, <1>6, <1>7 DEF Lose, TypeOK
  <1>8. CASE CloseTab(t)
    <2>1. Nothing \in Settings
      BY DEF Nothing, Defaults, Settings, NoId, AccountAssumption
    <2>2. /\ open' \in [Tabs -> BOOLEAN] /\ settings' \in [Tabs -> Settings]
          /\ fullNick' \in [Tabs -> Nicks \cup {NoNick}]
          /\ nicking' \in [Tabs -> Nicks \cup {NoNick}]
          /\ stale' \in [Kinds -> SUBSET Tabs]
      BY <1>8, <2>1 DEF CloseTab, TypeOK
    <2>3. \A u \in Tabs : u # t => open'[u] = open[u] /\ settings'[u] = settings[u]
      BY <1>8 DEF CloseTab, TypeOK
    <2>4. ~open'[t]
      BY <1>8 DEF CloseTab, TypeOK
    <2>5. /\ \A u \in Tabs : open'[u] => settings'[u].id # NoId
          /\ \A u \in Tabs : online'[u] => open'[u]
      BY <1>5, <2>3, <2>4 DEF TypeOK
    <2> QED
      BY <1>2, <1>3, <1>4, <1>6, <2>2, <2>5 DEF TypeOK
  <1> QED
    BY <1>7, <1>8

-----------------------------------------------------------------------------
(* Connections *)

Step(t) == Page(t) \/ Serve(t) \/ Lose(t) \/ CloseTab(t)

LEMMA TypeStep ==
    ASSUME AccountAssumption, Base, NEW t \in Tabs, Step(t)
    PROVE  TypeOK'
  BY TypePage, TypeAnswer, TypeServe, TypeLeave DEF Step, Page, Serve

\* A step of a tab, or of its connection, leaves those of the others alone.
LEMMA Elsewhere ==
    ASSUME TypeOK, NEW t \in Tabs, Step(t), NEW u \in Tabs, u # t
    PROVE  UNCHANGED Row(u)
  <1> USE DEF Row, TypeOK, tabVars, netVars, srvVars, noteVars, handleFrame, serverFrame
  <1>1. CASE Load(t) \/ Connect(t)
    BY <1>1 DEF Load, Connect
  <1>2. ASSUME NEW n, SetNick(t, n), UNCHANGED nicking \/ NickHashed(t)
        PROVE  UNCHANGED Row(u)
    BY <1>2 DEF SetNick, Save, Send, NoteEarly, NickHashed
  <1>3. CASE NickHashed(t)
    BY <1>2, <1>3 DEF NickHashed
  <1>4. CASE \E n \in Nicks : TypeNick(t, n)
    BY <1>2, <1>4 DEF TypeNick, parseTripcode
  <1>5. CASE TypeLogout(t)
    BY <1>5 DEF TypeLogout, NewSettings, Send, NoteEarly
  <1>6. CASE \E k \in Kinds, l \in Looks : TypeLook(t, k, l)
    BY <1>6 DEF TypeLook, applyLook
  <1>7. CASE session_restored(t) \/ session_new(t) \/ error(t)
    BY <1>7 DEF session_restored, session_new, error, Save, Handle
  <1>8. CASE HelloRestored(t) \/ HelloNew(t)
    BY <1>8 DEF HelloRestored, HelloNew, Receive, Greeted, Tell
  <1>9. CASE ServeNick(t) \/ RefuseNick(t) \/ ServeLogout(t) \/ TwoSecondsPass(t)
    BY <1>9 DEF ServeNick, RefuseNick, ServeLogout, TwoSecondsPass, Receive, Tell
  <1>10. CASE Lose(t) \/ CloseTab(t)
    BY <1>10 DEF Lose, CloseTab, Disconnected
  <1> QED
    BY <1>1, <1>3, <1>4, <1>5, <1>6, <1>7, <1>8, <1>9, <1>10 DEF Step, Page, Serve

\* The three steps by which a page sends something else than a greeting, and those
\* by which the server reads it, in the terms of the tab's own variables.
Sends(t, m) ==
    /\ m \in Messages /\ m.op # "hello" /\ Send(t, m) /\ open[t]
    /\ UNCHANGED <<open, online, down, srv, refused>> /\ NoteEarly(t)

Answering(t) == session_restored(t) \/ session_new(t) \/ error(t)

LEMMA Sending ==
    ASSUME AccountAssumption, Base, NEW t \in Tabs
    PROVE  /\ \A n \in Nicks : SetNick(t, n) /\ open[t] =>
                /\ Sends(t, [op |-> "nick", nick |-> n])
                /\ fullNick'[t] = n /\ settings'[t].id = settings[t].id
           /\ NickHashed(t) => open[t] /\ nicking[t] \in Nicks /\ SetNick(t, nicking[t])
           /\ TypeLogout(t) => Sends(t, [op |-> "logout"]) /\ fullNick'[t] = NoNick
  <1> TypeOK /\ Connection(t)
    BY DEF Base
  <1>1. ASSUME NEW n \in Nicks, SetNick(t, n), open[t]
        PROVE  /\ Sends(t, [op |-> "nick", nick |-> n])
               /\ fullNick'[t] = n /\ settings'[t].id = settings[t].id
    <2>1. [op |-> "nick", nick |-> n] \in Messages
      BY MessagesTyped
    <2>2. settings'[t].id = settings[t].id
      BY <1>1, SetNickTyped
    <2>3. /\ Send(t, [op |-> "nick", nick |-> n]) /\ NoteEarly(t)
          /\ UNCHANGED <<open, online, down, srv, refused>>
      BY <1>1 DEF SetNick, srvVars
    <2>4. fullNick'[t] = n
      BY <1>1 DEF SetNick, TypeOK
    <2> QED
      BY <1>1, <2>1, <2>2, <2>3, <2>4 DEF Sends
  <1>2. ASSUME NickHashed(t)
        PROVE  open[t] /\ nicking[t] \in Nicks /\ SetNick(t, nicking[t])
    BY <1>2 DEF NickHashed, Connection, TypeOK
  <1>3. ASSUME TypeLogout(t)
        PROVE  Sends(t, [op |-> "logout"]) /\ fullNick'[t] = NoNick
    BY <1>3, MessagesTyped DEF TypeLogout, Sends, TypeOK, srvVars
  <1> QED
    BY <1>1, <1>2, <1>3

\* Where the queues stand.
LEMMA Queues ==
    ASSUME TypeOK, NEW t \in Tabs
    PROVE  /\ up[t] \in Seq(Messages) /\ down[t] \in Seq(Answers)
           /\ Len(up[t]) \in Nat /\ Len(down[t]) \in Nat
           /\ up[t] = <<>> <=> Len(up[t]) = 0
           /\ down[t] = <<>> <=> Len(down[t]) = 0
           /\ DOMAIN down[t] = 1 .. Len(down[t])
           /\ \A i \in 1 .. Len(up[t]) : up[t][i] \in Messages
           /\ \A i \in 1 .. Len(down[t]) : down[t][i] \in Answers
  <1>1. up[t] \in Seq(Messages) /\ down[t] \in Seq(Answers)
    BY DEF TypeOK
  <1> QED
    BY <1>1, EmptySeq, LenProperties, ElementOfSeq

LEMMA ConnectionSent ==
    ASSUME TypeOK, NEW t \in Tabs, Connection(t), NEW m, Sends(t, m)
    PROVE  Connection(t)'
  <1>1. /\ open'[t] /\ UNCHANGED <<open[t], online[t], down[t], srv[t]>>
    BY DEF Sends
  <1>2. CASE online[t]
    <2>1. /\ Len(up[t]) \in Nat /\ Len(up'[t]) = Len(up[t]) + 1
          /\ \A i \in 1 .. Len(up[t]) : up'[t][i] = up[t][i]
          /\ up'[t][Len(up[t]) + 1] = m /\ m.op # "hello" /\ m \in Messages
          /\ (up[t] = <<>> <=> Len(up[t]) = 0)
      BY <1>2, SendAppends, Queues DEF Sends
    <2>2. \A i \in 1 .. Len(up'[t]) : up'[t][i].op = "hello" <=> i = 1 /\ ~srv[t].hello
      <3> SUFFICES ASSUME NEW i \in 1 .. Len(up'[t])
                   PROVE  up'[t][i].op = "hello" <=> i = 1 /\ ~srv[t].hello
        OBVIOUS
      <3>1. CASE i \in 1 .. Len(up[t])
        BY <2>1, <3>1 DEF Connection
      <3>2. CASE i = Len(up[t]) + 1
        <4>1. i = 1 => srv[t].hello
          BY <1>2, <2>1, <3>2 DEF Connection
        <4> QED
          BY <2>1, <3>2, <4>1
      <3> QED
        BY <2>1, <3>1, <3>2
    <2>3. up'[t] # <<>>
      BY <2>1
    <2> QED
      BY <1>1, <1>2, <2>2, <2>3 DEF Connection
  <1>3. CASE ~online[t]
    <2>1. up' = up
      BY <1>3 DEF Sends, Send
    <2> QED
      BY <1>1, <1>3, <2>1 DEF Connection
  <1> QED
    BY <1>2, <1>3

\* A greeting is read first, and before anything has been answered.
LEMMA Reading ==
    ASSUME Base, NEW t \in Tabs, NEW op \in {"hello", "nick", "logout"}, Receive(t, op)
    PROVE  /\ online[t] /\ open[t]
           /\ op = "hello" <=> ~srv[t].hello
           /\ op = "hello" => down[t] = <<>>
           /\ \A i \in 1 .. Len(up'[t]) : up'[t][i].op # "hello"
  <1>1. TypeOK /\ Connection(t)
    BY DEF Base
  <1>2. /\ up[t] # <<>> /\ Len(up[t]) \in Nat \ {0} /\ up[t][1].op = op
        /\ Len(up'[t]) = Len(up[t]) - 1
        /\ \A i \in 1 .. Len(up'[t]) : up'[t][i] = up[t][i + 1]
    BY <1>1, HeadUp
  <1>3. online[t] /\ open[t]
    BY <1>1, <1>2 DEF Connection
  <1>4. op = "hello" <=> ~srv[t].hello
    BY <1>1, <1>2 DEF Connection
  <1>5. op = "hello" => down[t] = <<>>
    BY <1>1, <1>3, <1>4 DEF Connection
  <1>6. ASSUME NEW i \in 1 .. Len(up'[t])
        PROVE  up'[t][i].op # "hello"
    <2>1. i + 1 \in 1 .. Len(up[t]) /\ i + 1 # 1 /\ up'[t][i] = up[t][i + 1]
      BY <1>2, <1>6
    <2> QED
      BY <1>1, <2>1 DEF Connection
  <1> QED
    BY <1>3, <1>4, <1>5, <1>6

LEMMA ConnectionServed ==
    ASSUME AccountAssumption, Base, NEW t \in Tabs, Serve(t)
    PROVE  Connection(t)'
  <1> TypeOK /\ Connection(t)
    BY DEF Base
  <1> USE DEF tabVars, netVars, srvVars, noteVars, serverFrame
  <1>1. CASE HelloRestored(t) \/ HelloNew(t)
    <2>1. PICK n \in Good \cup {NoNick}, a \in Answers :
                /\ srv' = [srv EXCEPT ![t] =
                             [hello |-> TRUE, id |-> up[t][1].id, nick |-> n, hot |-> FALSE]]
                /\ Tell(t, a)
      BY <1>1, GreetingEffect
    <2>2. Receive(t, "hello") /\ serverFrame
      BY <1>1, GreetingEffect
    <2>3. /\ online[t] /\ open[t] /\ down[t] = <<>> /\ Len(down[t]) = 0
          /\ \A i \in 1 .. Len(up'[t]) : up'[t][i].op # "hello"
      BY <2>2, Reading, Queues
    <2>4. Len(down'[t]) = 1
      <3>1. Len(down'[t]) = Len(down[t]) + 1
        BY <2>1, TellTyped
      <3> QED
        BY <2>3, <3>1
    <2>5. srv'[t].hello /\ open'[t] /\ online'[t]
      BY <2>1, <2>2, <2>3 DEF TypeOK
    <2> QED
      BY <2>3, <2>4, <2>5 DEF Connection
  <1>2. CASE ServeNick(t) \/ ServeLogout(t)
    <2>1. PICK op \in {"nick", "logout"} : Receive(t, op)
      BY <1>2 DEF ServeNick, ServeLogout
    <2>2. /\ online[t] /\ open[t] /\ srv[t].hello
          /\ \A i \in 1 .. Len(up'[t]) : up'[t][i].op # "hello"
      BY <2>1, Reading
    <2>3. srv'[t].hello = srv[t].hello
      BY <1>2 DEF ServeNick, ServeLogout, TypeOK
    <2>4. UNCHANGED <<open, online, down>>
      BY <1>2 DEF ServeNick, ServeLogout
    <2> QED
      BY <2>2, <2>3, <2>4 DEF Connection
  <1>3. CASE RefuseNick(t)
    <2>1. /\ online[t] /\ open[t] /\ srv[t].hello
          /\ \A i \in 1 .. Len(up'[t]) : up'[t][i].op # "hello"
      BY <1>3, Reading DEF RefuseNick
    <2>2. UNCHANGED <<open, online, srv>>
      BY <1>3 DEF RefuseNick
    <2>3. /\ Len(down[t]) \in Nat /\ Len(down'[t]) = Len(down[t]) + 1
          /\ \A i \in 1 .. Len(down[t]) : down'[t][i] = down[t][i]
          /\ down'[t][Len(down[t]) + 1].op = "error"
      BY <1>3, TellTyped, MessagesTyped DEF RefuseNick
    <2>4. \A i \in 2 .. Len(down'[t]) : down'[t][i].op = "error"
      <3> SUFFICES ASSUME NEW i \in 2 .. Len(down'[t])
                   PROVE  down'[t][i].op = "error"
        OBVIOUS
      <3>1. i \in 2 .. Len(down[t]) \/ i = Len(down[t]) + 1
        BY <2>3
      <3> QED
        BY <2>3, <3>1 DEF Connection
    <2> QED
      BY <2>1, <2>2, <2>4 DEF Connection
  <1>4. CASE TwoSecondsPass(t)
    <2>1. /\ srv[t].hot /\ srv'[t].hello = srv[t].hello
          /\ UNCHANGED <<open, online, up, down, settings, nicking>>
      BY <1>4 DEF TwoSecondsPass, TypeOK
    <2>2. online[t] /\ srv[t].hello
      BY <2>1 DEF Connection, NoServer
    <2> QED
      BY <2>1, <2>2 DEF Connection
  <1> QED
    BY <1>1, <1>2, <1>3, <1>4 DEF Serve

LEMMA ConnectionStep ==
    ASSUME AccountAssumption, Base, NEW t \in Tabs, Step(t)
    PROVE  Base'
  <1> TypeOK /\ Connection(t)
    BY DEF Base
  <1>1. ASSUME NEW u \in Tabs, u # t
        PROVE  Connection(u)'
    BY <1>1, Elsewhere DEF Base, Row, Connection
  <1> USE DEF tabVars, netVars, srvVars, noteVars
  <1>9. Connection(t)'
    <2>2. CASE Load(t)
      BY <2>2 DEF Load, Connection, TypeOK
    <2>3. CASE Connect(t)
      <3>1. open[t] /\ ~online[t] /\ UNCHANGED <<open, down, srv>> /\ online'[t]
        BY <2>3 DEF Connect, TypeOK
      <3>2. PICK m : m.op = "hello" /\ up'[t] = <<m>>
        BY <2>3 DEF Connect, TypeOK
      <3> QED
        BY <3>1, <3>2 DEF Connection, NoServer
    <2>4. CASE (\E n \in Nicks : TypeNick(t, n)) \/ NickHashed(t) \/ TypeLogout(t)
      <3>1. CASE \E m : Sends(t, m)
        BY <3>1, ConnectionSent
      <3>2. CASE \A m : ~Sends(t, m)
        <4>1. open[t] /\ UNCHANGED <<open, online, up, down, srv>>
          BY <2>4, <3>2, Sending DEF TypeNick, parseTripcode
        <4> QED
          BY <4>1 DEF Connection
      <3> QED
        BY <3>1, <3>2
    <2>5. CASE \E k \in Kinds, l \in Looks : TypeLook(t, k, l)
      BY <2>5 DEF TypeLook, Connection
    <2>6. CASE Answering(t)
      <3>1. PICK op \in {"session_restored", "session_new", "error"} : Handle(t, op)
        BY <2>6 DEF Answering, session_restored, session_new, error
      <3>2. /\ down[t] # <<>> /\ Len(down[t]) \in Nat /\ Len(down'[t]) = Len(down[t]) - 1
            /\ \A i \in 1 .. Len(down'[t]) : down'[t][i] = down[t][i + 1]
        BY <3>1, HeadDown
      <3>3. online[t] /\ open[t] /\ srv[t].hello
        BY <3>2 DEF Connection
      <3>4. UNCHANGED <<open, online, up, srv>>
        BY <2>6 DEF Answering, session_restored, session_new, error, handleFrame
      <3>5. \A i \in 2 .. Len(down'[t]) : down'[t][i].op = "error"
        <4> SUFFICES ASSUME NEW i \in 2 .. Len(down'[t])
                     PROVE  down'[t][i].op = "error"
          OBVIOUS
        <4>1. i + 1 \in 2 .. Len(down[t]) /\ down'[t][i] = down[t][i + 1]
          BY <3>2
        <4> QED
          BY <4>1 DEF Connection
      <3> QED
        BY <3>3, <3>4, <3>5 DEF Connection
    <2>7. CASE Serve(t)
      BY <2>7, ConnectionServed
    <2>8. CASE Lose(t) \/ CloseTab(t)
      <3>1. /\ ~online'[t] /\ up'[t] = <<>> /\ down'[t] = <<>> /\ srv'[t] = NoServer
        BY <2>8 DEF Lose, CloseTab, Disconnected, TypeOK
      <3>2. ~open'[t] => settings'[t] = Nothing /\ nicking'[t] = NoNick
        BY <2>8 DEF Lose, CloseTab, TypeOK, Connection
      <3> QED
        BY <3>1, <3>2 DEF Connection
    <2> QED
      BY <2>2, <2>3, <2>4, <2>5, <2>6, <2>7, <2>8 DEF Step, Page, Answering
  <1>10. (stored # Nothing => stored.id # NoId)'
    <2>1. stored' \in {stored, Nothing, settings'[t]}
      BY DEF Step, Page, Serve, Load, Connect, NickHashed, TypeLogout, session_restored,
             session_new, error, TypeNick, parseTripcode, TypeLook, SetNick, Save, applyLook,
             HelloRestored, HelloNew, Greeted, ServeNick, RefuseNick, ServeLogout, TwoSecondsPass, Lose, CloseTab,
             Disconnected, serverFrame, TypeOK
    <2>2. CASE stored' \in {stored, Nothing}
      BY <2>2 DEF Base
    <2>3. CASE stored' = settings'[t] /\ open'[t]
      BY <2>3, TypeStep DEF TypeOK
    <2>4. CASE stored' = settings'[t] /\ ~open'[t]
      BY <1>9, <2>4 DEF Connection
    <2> QED
      BY <2>1, <2>2, <2>3, <2>4
  <1> QED
    BY <1>1, <1>9, <1>10, TypeStep DEF Base

-----------------------------------------------------------------------------
(* The look *)

LEMMA SavedLook ==
    ASSUME TypeOK, LooksInTabs, NEW t \in Tabs, open[t], NEW s \in Settings,
           s.look = settings[t].look, Save(t, s), UNCHANGED <<open, chosen, stale>>
    PROVE  LooksInTabs'
  <1>1. \A u \in Tabs : settings'[u].look = settings[u].look
    BY DEF Save, TypeOK
  <1>2. \A k \in Kinds \ undone' : stored'.look[k] = chosen[k]
    BY DEF Save, Undoing, LooksInTabs
  <1> QED
    BY <1>1, <1>2 DEF LooksInTabs, ChoiceKept

LEMMA LooksStep ==
    ASSUME AccountAssumption, Base, LooksInTabs, NEW t \in Tabs, Step(t)
    PROVE  LooksInTabs'
  <1> TypeOK /\ Connection(t)
    BY DEF Base
  <1> USE DEF tabVars, netVars, srvVars, noteVars
  <1>1. CASE Load(t)
    <2>1. loadSettings.look = stored.look
      BY DEF loadSettings, Nothing
    <2>2. /\ open' = [open EXCEPT ![t] = TRUE] /\ stored' = loadSettings
          /\ settings' = [settings EXCEPT ![t] = loadSettings]
          /\ UNCHANGED <<chosen, undone>>
      BY <1>1 DEF Load
    <2>3. \A k \in Kinds : stale'[k] = IF k \in undone THEN stale[k] \cup {t} ELSE stale[k] \ {t}
      BY <1>1 DEF Load
    <2>4. ASSUME NEW u \in Tabs, NEW k \in Kinds, open'[u], u \notin stale'[k]
          PROVE  settings'[u].look[k] = chosen'[k]
      <3>1. CASE u = t
        BY <2>1, <2>2, <2>3, <2>4, <3>1 DEF LooksInTabs, ChoiceKept, TypeOK
      <3>2. CASE u # t
        BY <2>2, <2>3, <2>4, <3>2 DEF LooksInTabs, TypeOK
      <3> QED
        BY <3>1, <3>2
    <2> QED
      BY <2>1, <2>2, <2>4 DEF LooksInTabs, ChoiceKept
  <1>2. ASSUME NEW n \in Nicks, open[t], SetNick(t, n)
        PROVE  LooksInTabs'
    <2> DEFINE s == [settings[t] EXCEPT !.nick = n]
    <2>1. s \in Settings /\ s.look = settings[t].look
      BY DEF TypeOK, Settings
    <2>2. Save(t, s) /\ UNCHANGED <<open, chosen, stale>>
      BY <1>2 DEF SetNick
    <2> HIDE DEF s
    <2> QED
      BY <1>2, <2>1, <2>2, SavedLook
  <1>3. CASE \E n \in Nicks : TypeNick(t, n)
    <2>1. open[t] /\ ((\E n \in Nicks : SetNick(t, n))
                      \/ UNCHANGED <<stored, open, settings, chosen, stale, undone>>)
      BY <1>3 DEF TypeNick, parseTripcode
    <2> QED
      BY <1>2, <2>1 DEF LooksInTabs, ChoiceKept
  <1>4. CASE NickHashed(t)
    BY <1>2, <1>4, Sending
  <1>5. CASE TypeLogout(t)
    <2>1. /\ stored'.look = Defaults /\ settings'[t].look = Defaults /\ chosen' = Defaults
          /\ \A k \in Kinds : stale'[k] = {u \in Tabs : open[u]} \ {t}
          /\ UNCHANGED open
      BY <1>5 DEF TypeLogout, NewSettings, Nothing, TypeOK
    <2> QED
      BY <2>1 DEF LooksInTabs, ChoiceKept
  <1>6. ASSUME NEW k \in Kinds, NEW l \in Looks, TypeLook(t, k, l)
        PROVE  LooksInTabs'
    <2> DEFINE s == [settings[t] EXCEPT !.look[k] = l]
    <2>1. /\ s.look[k] = l
          /\ \A j \in Kinds \ {k} : s.look[j] = settings[t].look[j]
      BY DEF TypeOK, Settings
    <2>2. /\ settings' = [settings EXCEPT ![t] = s] /\ stored' = settings'[t]
          /\ chosen' = [chosen EXCEPT ![k] = l] /\ undone' = Undoing(t) \ {k}
          /\ stale' = [stale EXCEPT ![k] = {u \in Tabs : open[u]} \ {t}]
          /\ open[t] /\ UNCHANGED open
      BY <1>6 DEF TypeLook, applyLook, TypeOK
    <2> HIDE DEF s
    <2>3. settings'[t] = s /\ \A u \in Tabs \ {t} : settings'[u] = settings[u]
      BY <2>2 DEF TypeOK
    <2>4. /\ chosen'[k] = l /\ stale'[k] = {u \in Tabs : open[u]} \ {t}
          /\ \A j \in Kinds \ {k} : chosen'[j] = chosen[j] /\ stale'[j] = stale[j]
      BY <2>2 DEF TypeOK
    <2>5. ASSUME NEW u \in Tabs, NEW j \in Kinds, open[u], u \notin stale'[j]
          PROVE  settings'[u].look[j] = chosen'[j]
      BY <2>1, <2>3, <2>4, <2>5 DEF LooksInTabs
    <2>6. ASSUME NEW j \in Kinds \ undone'
          PROVE  stored'.look[j] = chosen'[j]
      BY <2>1, <2>2, <2>3, <2>4, <2>6 DEF LooksInTabs, Undoing
    <2> QED
      BY <2>2, <2>5, <2>6 DEF LooksInTabs, ChoiceKept
  <1>7. CASE session_restored(t) \/ session_new(t)
    <2> DEFINE s == [settings[t] EXCEPT !.id = Head(down[t]).id]
    <2>1. Save(t, s) /\ UNCHANGED <<open, chosen, stale>>
      BY <1>7 DEF session_restored, session_new, handleFrame
    <2>2. open[t]
      BY <1>7 DEF session_restored, session_new, Handle, Connection
    <2>3. s.look = settings[t].look
      BY DEF TypeOK, Settings
    <2>4. s \in Settings
      <3>1. s = settings'[t] /\ settings' \in [Tabs -> Settings]
        BY <1>7, <2>1, TypeAnswer DEF Save, TypeOK
      <3> QED
        BY <3>1
    <2> HIDE DEF s
    <2> QED
      BY <2>1, <2>2, <2>3, <2>4, SavedLook
  <1>8. CASE Connect(t) \/ error(t) \/ Serve(t) \/ Lose(t)
    <2>1. UNCHANGED <<open, settings, stored, chosen, stale, undone>>
      BY <1>8 DEF Connect, error, handleFrame, Serve, HelloRestored, HelloNew, Greeted, ServeNick,
             RefuseNick, ServeLogout, TwoSecondsPass, Lose, Disconnected, serverFrame
    <2> QED
      BY <2>1 DEF LooksInTabs, ChoiceKept
  <1>9. CASE CloseTab(t)
    <2>1. /\ open' = [open EXCEPT ![t] = FALSE] /\ UNCHANGED <<stored, chosen, undone>>
          /\ \A k \in Kinds : stale'[k] = stale[k] \ {t}
          /\ \A u \in Tabs \ {t} : settings'[u] = settings[u]
      BY <1>9 DEF CloseTab, Disconnected, TypeOK
    <2> QED
      BY <2>1 DEF LooksInTabs, ChoiceKept, TypeOK
  <1> QED
    BY <1>1, <1>3, <1>4, <1>5, <1>6, <1>7, <1>8, <1>9 DEF Step, Page

-----------------------------------------------------------------------------
(* The nick *)

LEMMA NickSent ==
    ASSUME Base, NEW t \in Tabs, NickInFlight(t), NEW m, Sends(t, m),
           fullNick'[t] = IF m.op = "nick" THEN m.nick ELSE NoNick
    PROVE  NickInFlight(t)'
  <1> TypeOK /\ Connection(t)
    BY DEF Base
  <1> SUFFICES ASSUME online'[t], ~early'[t]
               PROVE  NickInFlight(t)'
    BY DEF NickInFlight
  <1>1. online[t] /\ Answered(t) /\ srv[t].hello /\ UNCHANGED <<down, srv>>
    BY DEF Sends, NoteEarly, TypeOK, Answered
  <1>2. Len(up[t]) \in Nat /\ Len(up'[t]) = Len(up[t]) + 1 /\ up'[t][Len(up'[t])] = m
    BY <1>1, SendAppends DEF Sends
  <1>3. up'[t] # <<>>
    BY <1>2
  <1>4. Answered(t)' /\ srv'[t].hello
    BY <1>1 DEF Answered
  <1> QED
    BY <1>2, <1>3, <1>4 DEF NickInFlight

\* The answer to the greeting is the first thing down.
LEMMA AnswerFirst ==
    ASSUME Base, NEW t \in Tabs, NEW op \in {"session_restored", "session_new", "error"},
           Handle(t, op)
    PROVE  /\ online[t] /\ open[t] /\ srv[t].hello
           /\ Answered(t) <=> op = "error"
           /\ \A i \in DOMAIN down'[t] : down'[t][i].op = "error"
  <1>1. TypeOK /\ Connection(t)
    BY DEF Base
  <1>2. /\ down[t] # <<>> /\ Len(down[t]) \in Nat \ {0} /\ down[t][1].op = op
        /\ Len(down'[t]) = Len(down[t]) - 1 /\ DOMAIN down[t] = 1 .. Len(down[t])
        /\ \A i \in 1 .. Len(down'[t]) : down'[t][i] = down[t][i + 1]
        /\ down' \in [Tabs -> Seq(Answers)]
    BY <1>1, HeadDown, Queues
  <1>3. online[t] /\ open[t] /\ srv[t].hello
    BY <1>1, <1>2 DEF Connection
  <1>4. DOMAIN down'[t] = 1 .. Len(down'[t])
    <2>1. down'[t] \in Seq(Answers)
      BY <1>2
    <2> QED
      BY <2>1, LenProperties
  <1>5. ASSUME NEW i \in DOMAIN down'[t]
        PROVE  down'[t][i].op = "error"
    <2>1. i + 1 \in 2 .. Len(down[t]) /\ down'[t][i] = down[t][i + 1]
      BY <1>2, <1>4
    <2> QED
      BY <1>1, <2>1 DEF Connection
  <1>6. 1 \in DOMAIN down[t]
    BY <1>2
  <1>7. Answered(t) <=> op = "error"
    <2>1. \A i \in DOMAIN down[t] : i = 1 \/ i \in 2 .. Len(down[t])
      BY <1>2
    <2> QED
      BY <1>1, <1>2, <1>3, <1>6, <2>1 DEF Answered, Connection
  <1> QED
    BY <1>3, <1>5, <1>7

LEMMA NickAnswered ==
    ASSUME AccountAssumption, Base, NEW t \in Tabs, NickInFlight(t), Answering(t)
    PROVE  NickInFlight(t)'
  <1> TypeOK
    BY DEF Base
  <1>1. PICK op \in {"session_restored", "session_new", "error"} : Handle(t, op)
    BY DEF Answering, session_restored, session_new, error
  <1>2. Head(down[t]) = down[t][1] /\ down[t][1].op = op
    BY <1>1, HeadDown
  <1>3. UNCHANGED <<online, up, srv, refused, early>>
    BY DEF Answering, session_restored, session_new, error, handleFrame, srvVars
  <1>4. Answered(t)' /\ srv[t].hello
    BY <1>1, <1>3, AnswerFirst DEF Answered
  <1>5. CASE op = "error"
    <2>1. UNCHANGED fullNick /\ Answered(t)
      BY <1>1, <1>2, <1>5, AnswerFirst DEF Answering, session_restored, session_new, error, Handle
    <2> QED
      BY <1>3, <1>4, <2>1 DEF NickInFlight
  <1>6. CASE op # "error"
    <2>1. ~Answered(t)
      BY <1>1, <1>6, AnswerFirst
    <2>2. fullNick'[t] = IF down[t][1].op = "session_restored" /\ down[t][1].nick # NoNick
                         THEN down[t][1].nick ELSE fullNick[t]
      BY <1>1, <1>2, <1>6 DEF Answering, session_restored, session_new, error, Handle, TypeOK
    <2> QED
      BY <1>3, <1>4, <2>1, <2>2 DEF NickInFlight
  <1> QED
    BY <1>5, <1>6

\* A message read is the last one, or the last one is still to be read.
LEMMA LastRead ==
    ASSUME TypeOK, NEW t \in Tabs, NEW op \in {"hello", "nick", "logout"}, Receive(t, op)
    PROVE  /\ up[t] # <<>> /\ Head(up[t]) = up[t][1] /\ up[t][1].op = op
           /\ up'[t] = <<>> => up[t][Len(up[t])] = up[t][1]
           /\ up'[t] # <<>> => up'[t][Len(up'[t])] = up[t][Len(up[t])]
           /\ Len(up[t]) = 1 => up'[t] = <<>>
  <1>1. /\ up[t] # <<>> /\ Len(up[t]) \in Nat \ {0} /\ Head(up[t]) = up[t][1]
        /\ up[t][1].op = op /\ Len(up'[t]) = Len(up[t]) - 1
        /\ \A i \in 1 .. Len(up'[t]) : up'[t][i] = up[t][i + 1]
        /\ up' \in [Tabs -> Seq(Messages)]
    BY HeadUp
  <1>2. up'[t] = <<>> <=> Len(up'[t]) = 0
    <2>1. up'[t] \in Seq(Messages)
      BY <1>1
    <2> QED
      BY <2>1, EmptySeq
  <1>3. up'[t] # <<>> => up'[t][Len(up'[t])] = up[t][Len(up[t])]
    <2> SUFFICES ASSUME Len(up'[t]) # 0
                 PROVE  up'[t][Len(up'[t])] = up[t][Len(up[t])]
      BY <1>2
    <2>1. Len(up'[t]) \in 1 .. Len(up'[t]) /\ Len(up'[t]) + 1 = Len(up[t])
      <3>1. \A k \in Nat \ {0} : k - 1 # 0 => k - 1 \in 1 .. k - 1 /\ (k - 1) + 1 = k
        OBVIOUS
      <3> QED
        BY <1>1, <3>1
    <2> QED
      BY <1>1, <2>1
  <1> QED
    BY <1>1, <1>2, <1>3

LEMMA NickServed ==
    ASSUME AccountAssumption, Base, NEW t \in Tabs, NickInFlight(t), Serve(t)
    PROVE  NickInFlight(t)'
  <1> TypeOK /\ Connection(t)
    BY DEF Base
  <1> USE DEF tabVars, netVars, srvVars, noteVars, serverFrame
  <1> UNCHANGED <<fullNick, online, early>>
    BY DEF Serve, HelloRestored, HelloNew, Greeted, ServeNick, RefuseNick, ServeLogout,
           TwoSecondsPass
  <1> SUFFICES ASSUME online[t], ~early[t]
               PROVE  NickInFlight(t)'
    BY DEF NickInFlight
  <1>1. CASE HelloRestored(t) \/ HelloNew(t)
    <2> DEFINE q == up[t][1].nick
    <2>1. PICK n \in Good \cup {NoNick}, a \in Answers, b \in BOOLEAN :
                /\ srv' = [srv EXCEPT ![t] =
                             [hello |-> TRUE, id |-> up[t][1].id, nick |-> n, hot |-> FALSE]]
                /\ Tell(t, a) /\ a.op # "error"
                /\ refused' = [refused EXCEPT ![t] = b]
                /\ b \/ n = IF a.op = "session_restored" /\ a.nick # NoNick THEN a.nick ELSE q
      BY <1>1, GreetingEffect
    <2>2. Receive(t, "hello")
      BY <1>1, GreetingEffect
    <2>3. ~srv[t].hello /\ Len(down[t]) = 0
      BY <2>2, Reading, Queues
    <2>4. Len(up[t]) = 1 /\ q = fullNick[t]
      BY <2>3 DEF NickInFlight
    <2>5. up'[t] = <<>>
      BY <2>2, <2>4, LastRead
    <2>6. Len(down'[t]) = 1 /\ down'[t][1] = a /\ down' \in [Tabs -> Seq(Answers)]
      <3>1. /\ Len(down'[t]) = Len(down[t]) + 1 /\ down'[t][Len(down[t]) + 1] = a
            /\ down' \in [Tabs -> Seq(Answers)]
        BY <2>1, TellTyped
      <3> QED
        BY <2>3, <3>1
    <2>7. srv'[t].hello /\ srv'[t].nick = n /\ (refused'[t] <=> b)
      BY <2>1 DEF TypeOK
    <2>8. ~Answered(t)'
      <3>1. 1 \in DOMAIN down'[t]
        <4>1. down'[t] \in Seq(Answers)
          BY <2>6
        <4>2. DOMAIN down'[t] = 1 .. Len(down'[t])
          BY <4>1, LenProperties
        <4> QED
          BY <2>6, <4>2
      <3> QED
        BY <2>1, <2>6, <3>1 DEF Answered
    <2> QED
      BY <2>1, <2>4, <2>5, <2>6, <2>7, <2>8 DEF NickInFlight
  <1>2. CASE ServeNick(t) \/ RefuseNick(t) \/ ServeLogout(t)
    <2>1. PICK op \in {"nick", "logout"} : Receive(t, op)
      BY <1>2 DEF ServeNick, RefuseNick, ServeLogout
    <2>2. srv[t].hello /\ up[t] # <<>> /\ Head(up[t]) = up[t][1] /\ up[t][1].op = op
      BY <2>1, Reading, LastRead
    <2>3. Answered(t)
      BY <2>2 DEF NickInFlight
    <2>4. srv'[t].hello
      <3>1. CASE ServeNick(t) \/ ServeLogout(t)
        <4>1. srv'[t].hello = srv[t].hello
          BY <3>1 DEF ServeNick, ServeLogout, TypeOK
        <4> QED
          BY <2>2, <4>1
      <3>2. CASE RefuseNick(t)
        BY <2>2, <3>2 DEF RefuseNick
      <3> QED
        BY <1>2, <3>1, <3>2
    <2>5. Answered(t)'
      <3>1. CASE ~RefuseNick(t)
        BY <1>2, <2>3, <2>4, <3>1 DEF ServeNick, ServeLogout, Answered
      <3>2. CASE RefuseNick(t)
        <4>1. /\ Len(down[t]) \in Nat /\ Len(down'[t]) = Len(down[t]) + 1
              /\ \A i \in 1 .. Len(down[t]) : down'[t][i] = down[t][i]
              /\ down'[t][Len(down[t]) + 1].op = "error" /\ down' \in [Tabs -> Seq(Answers)]
          BY <3>2, TellTyped, MessagesTyped DEF RefuseNick
        <4>2. DOMAIN down[t] = 1 .. Len(down[t]) /\ DOMAIN down'[t] = 1 .. Len(down'[t])
          <5>1. down'[t] \in Seq(Answers)
            BY <4>1
          <5> QED
            BY <5>1, Queues, LenProperties
        <4>3. ASSUME NEW i \in DOMAIN down'[t]
              PROVE  down'[t][i].op = "error"
          <5>1. i \in 1 .. Len(down[t]) \/ i = Len(down[t]) + 1
            BY <4>1, <4>2
          <5> QED
            BY <2>3, <4>1, <4>2, <5>1 DEF Answered
        <4> QED
          BY <2>4, <4>3 DEF Answered
      <3> QED
        BY <3>1, <3>2
    <2> DEFINE m == up[t][Len(up[t])]
    <2>6. fullNick[t] = IF m.op = "nick" THEN m.nick ELSE NoNick
      BY <2>2, <2>3 DEF NickInFlight
    <2>7. /\ up'[t] = <<>> => m = up[t][1]
          /\ up'[t] # <<>> => up'[t][Len(up'[t])] = m
      BY <2>1, LastRead
    <2>8. up'[t] = <<>> => refused'[t] \/ srv'[t].nick = fullNick[t]
      <3> SUFFICES ASSUME up'[t] = <<>>, ~refused'[t]
                   PROVE  srv'[t].nick = fullNick[t]
        OBVIOUS
      <3>1. ~RefuseNick(t)
        BY DEF RefuseNick, TypeOK
      <3>2. CASE ServeNick(t)
        <4>1. m.op = "nick" /\ srv'[t].nick = m.nick
          BY <2>2, <2>7, <3>2 DEF ServeNick, Receive, TypeOK
        <4> QED
          BY <2>6, <4>1
      <3>3. CASE ServeLogout(t)
        <4>1. m.op = "logout" /\ srv'[t].nick = NoNick
          BY <2>2, <2>7, <3>3 DEF ServeLogout, Receive, TypeOK
        <4> QED
          BY <2>6, <4>1
      <3> QED
        BY <1>2, <3>1, <3>2, <3>3
    <2> QED
      BY <2>4, <2>5, <2>6, <2>7, <2>8 DEF NickInFlight
  <1>3. CASE TwoSecondsPass(t)
    <2>1. /\ srv'[t].hello = srv[t].hello /\ srv'[t].nick = srv[t].nick
          /\ UNCHANGED <<up, down, refused>>
      BY <1>3 DEF TwoSecondsPass, TypeOK
    <2>2. Answered(t)' <=> Answered(t)
      BY <2>1 DEF Answered
    <2> QED
      BY <2>1, <2>2 DEF NickInFlight
  <1> QED
    BY <1>1, <1>2, <1>3 DEF Serve

LEMMA NicksStep ==
    ASSUME AccountAssumption, Base, NicksKnown, NEW t \in Tabs, Step(t)
    PROVE  NicksKnown'
  <1> TypeOK /\ Connection(t) /\ NickInFlight(t)
    BY DEF Base, NicksKnown
  <1>1. ASSUME NEW u \in Tabs, u # t
        PROVE  NickInFlight(u)'
    <2>1. UNCHANGED Row(u) /\ NickInFlight(u)
      BY <1>1, Elsewhere DEF NicksKnown
    <2> QED
      BY <2>1 DEF Row, NickInFlight, Answered
  <1> USE DEF tabVars, netVars, srvVars, noteVars
  <1>2. NickInFlight(t)'
    <2>1. CASE Load(t) \/ \E k \in Kinds, l \in Looks : TypeLook(t, k, l)
      BY <2>1 DEF Load, TypeLook, NickInFlight, Answered
    <2>2. CASE Connect(t)
      <3>1. srv' = srv /\ srv[t] = NoServer /\ fullNick' = fullNick
        BY <2>2 DEF Connect, Connection
      <3>2. PICK m : m.nick = fullNick[t] /\ up'[t] = <<m>>
        BY <2>2 DEF Connect, TypeOK
      <3> QED
        BY <3>1, <3>2 DEF NickInFlight, NoServer, Answered
    <2>3. ASSUME NEW n \in Nicks, open[t], SetNick(t, n)
          PROVE  NickInFlight(t)'
      BY <2>3, Sending, NickSent
    <2>4. CASE \E n \in Nicks : TypeNick(t, n)
      <3>1. CASE \E n \in Nicks : SetNick(t, n)
        BY <2>3, <2>4, <3>1 DEF TypeNick, parseTripcode
      <3>2. CASE ~ \E n \in Nicks : SetNick(t, n)
        BY <2>4, <3>2 DEF TypeNick, parseTripcode, NickInFlight, Answered
      <3> QED
        BY <3>1, <3>2
    <2>5. CASE NickHashed(t)
      BY <2>3, <2>5, Sending
    <2>6. CASE TypeLogout(t)
      BY <2>6, Sending, NickSent
    <2>7. CASE Answering(t)
      BY <2>7, NickAnswered
    <2>8. CASE Serve(t)
      BY <2>8, NickServed
    <2>9. CASE Lose(t) \/ CloseTab(t)
      BY <2>9 DEF Lose, CloseTab, Disconnected, TypeOK, NickInFlight
    <2> QED
      BY <2>1, <2>2, <2>4, <2>5, <2>6, <2>7, <2>8, <2>9 DEF Step, Page, Answering
  <1> QED
    BY <1>1, <1>2 DEF NicksKnown

-----------------------------------------------------------------------------
(* The session id *)

\* What is under way stays under way, and excused what is excused.
LEMMA IdsSent ==
    ASSUME Base, NEW t \in Tabs, IdsInFlight(t), NEW m, Sends(t, m),
           excused \subseteq excused',
           \/ settings'[t].id = settings[t].id
           \/ /\ m.op = "logout"
              /\ online[t] /\ ~Answered(t) => settings[t].id \in excused'
    PROVE  IdsInFlight(t)'
  <1> TypeOK /\ Connection(t)
    BY DEF Base
  <1>1. UNCHANGED <<online, down, srv>>
    BY DEF Sends
  <1>2. CASE ~online[t]
    <2>1. up' = up /\ up[t] = <<>> /\ down[t] = <<>> /\ srv[t].id = NoId
      BY <1>2 DEF Sends, Send, Connection, NoServer
    <2>2. Len(up[t]) = 0 /\ Len(down[t]) = 0
      BY <2>1, Queues
    <2> QED
      BY <1>1, <2>1, <2>2 DEF IdsInFlight
  <1>3. CASE online[t]
    <2>1. /\ Len(up[t]) \in Nat /\ Len(up'[t]) = Len(up[t]) + 1
          /\ \A i \in 1 .. Len(up[t]) : up'[t][i] = up[t][i]
          /\ up'[t][Len(up[t]) + 1] = m /\ m.op # "hello"
      BY <1>3, SendAppends DEF Sends
    <2>2. LoggingOut(t) \/ m.op = "logout" => LoggingOut(t)'
      <3>1. Len(up[t]) + 1 \in 1 .. Len(up'[t]) /\ 1 .. Len(up[t]) \subseteq 1 .. Len(up'[t])
        BY <2>1
      <3> QED
        BY <2>1, <3>1 DEF LoggingOut
    <2>3. ASSUME NEW i \in 1 .. Len(up'[t]), up'[t][i].op = "hello"
          PROVE  i \in 1 .. Len(up[t]) /\ up'[t][i] = up[t][i] /\ ~Answered(t)
      <3>1. i \in 1 .. Len(up[t])
        BY <2>1, <2>3
      <3>2. up[t][i].op = "hello"
        BY <2>1, <2>3, <3>1
      <3> QED
        BY <2>1, <3>1, <3>2 DEF Connection, Answered
    <2>4. ASSUME NEW i \in 1 .. Len(down[t]), down[t][i].op # "error"
          PROVE  ~Answered(t)
      BY <2>4, Queues DEF Answered
    <2> QED
      BY <1>1, <1>3, <2>2, <2>3, <2>4 DEF IdsInFlight
  <1> QED
    BY <1>2, <1>3

LEMMA IdsAnswered ==
    ASSUME AccountAssumption, Base, NEW t \in Tabs, IdsInFlight(t), Answering(t)
    PROVE  /\ IdsInFlight(t)'
           /\ settings'[t].id \in {settings[t].id} \cup excused
           /\ stored' \in {stored, settings'[t]}
           /\ UNCHANGED <<ids, forgotten, excused>>
  <1> TypeOK /\ Connection(t)
    BY DEF Base
  <1>1. PICK op \in {"session_restored", "session_new", "error"} : Handle(t, op)
    BY DEF Answering, session_restored, session_new, error
  <1>2. Head(down[t]) = down[t][1] /\ down[t][1].op = op /\ Len(down[t]) \in Nat \ {0}
    BY <1>1, HeadDown
  <1>3. UNCHANGED <<ids, online, up, srv, forgotten, excused>>
    BY DEF Answering, session_restored, session_new, error, handleFrame, srvVars
  <1>4. srv[t].hello /\ \A i \in DOMAIN down'[t] : down'[t][i].op = "error"
    BY <1>1, AnswerFirst
  <1>5. \A i \in 1 .. Len(up[t]) : up[t][i].op # "hello"
    BY <1>4 DEF Connection
  <1>6. down'[t] \in Seq(Answers) /\ DOMAIN down'[t] = 1 .. Len(down'[t])
    <2>1. down'[t] \in Seq(Answers)
      BY <1>1, HeadDown
    <2> QED
      BY <2>1, LenProperties
  <1>7. CASE op = "error"
    <2>1. UNCHANGED <<settings, stored>>
      BY <1>1, <1>2, <1>7 DEF Answering, session_restored, session_new, error, Handle
    <2> QED
      BY <1>3, <1>4, <1>5, <1>6, <2>1 DEF IdsInFlight, LoggingOut
  <1>8. CASE op # "error"
    <2>1. settings'[t].id = down[t][1].id /\ stored' = settings'[t]
      <3> DEFINE a == Head(down[t])
                 s == [settings[t] EXCEPT !.id = a.id]
      <3>1. Save(t, s)
        BY <1>1, <1>2, <1>8 DEF Answering, session_restored, session_new, error, Handle
      <3>2. settings' = [settings EXCEPT ![t] = s] /\ stored' = s
        BY <3>1 DEF Save
      <3>3. s.id = a.id
        BY DEF TypeOK, Settings
      <3> HIDE DEF s
      <3> QED
        BY <1>2, <3>2, <3>3 DEF TypeOK
    <2>2. 1 \in 1 .. Len(down[t])
      BY <1>2
    <2>3. /\ down[t][1].id \in {settings[t].id} \cup excused
          /\ srv[t].id \in {down[t][1].id, NoId}
      BY <1>2, <1>8, <2>2 DEF IdsInFlight
    <2> QED
      BY <1>3, <1>4, <1>5, <1>6, <2>1, <2>3 DEF IdsInFlight, LoggingOut
  <1> QED
    BY <1>7, <1>8

LEMMA IdsServed ==
    ASSUME AccountAssumption, Base, NEW t \in Tabs, IdsInFlight(t), Serve(t)
    PROVE  IdsInFlight(t)'
  <1> TypeOK /\ Connection(t)
    BY DEF Base
  <1> USE DEF tabVars, netVars, srvVars, noteVars, serverFrame
  <1> UNCHANGED <<settings, excused>>
    BY DEF Serve, HelloRestored, HelloNew, Greeted, ServeNick, RefuseNick, ServeLogout,
           TwoSecondsPass
  <1>1. CASE HelloRestored(t) \/ HelloNew(t)
    <2>1. PICK n \in Good \cup {NoNick}, a \in Answers :
                /\ srv' = [srv EXCEPT ![t] =
                             [hello |-> TRUE, id |-> up[t][1].id, nick |-> n, hot |-> FALSE]]
                /\ Tell(t, a) /\ a.id = up[t][1].id
      BY <1>1, GreetingEffect
    <2>2. Receive(t, "hello") /\ up[t][1].op = "hello"
      BY <1>1, GreetingEffect
    <2>3. /\ Len(down[t]) = 0 /\ Len(up[t]) \in Nat \ {0}
          /\ \A i \in 1 .. Len(up'[t]) : up'[t][i].op # "hello"
      BY <2>2, Reading, Queues, HeadUp
    <2>4. up[t][1].id \in {settings[t].id} \cup excused
      BY <2>2, <2>3 DEF IdsInFlight
    <2>5. Len(down'[t]) = 1 /\ down'[t][1] = a
      <3>1. Len(down'[t]) = Len(down[t]) + 1 /\ down'[t][Len(down[t]) + 1] = a
        BY <2>1, TellTyped
      <3> QED
        BY <2>3, <3>1
    <2>6. srv'[t].id = a.id
      BY <2>1 DEF TypeOK
    <2> QED
      BY <2>1, <2>3, <2>4, <2>5, <2>6 DEF IdsInFlight
  <1>2. CASE ServeNick(t) \/ RefuseNick(t)
    <2>1. /\ Len(up[t]) \in Nat \ {0} /\ Len(up'[t]) = Len(up[t]) - 1 /\ up[t][1].op = "nick"
          /\ \A i \in 1 .. Len(up'[t]) : up'[t][i] = up[t][i + 1]
          /\ \A i \in 1 .. Len(up'[t]) : up'[t][i].op # "hello"
      BY <1>2, HeadUp, Reading DEF ServeNick, RefuseNick
    <2>2. srv'[t].id = srv[t].id
      <3>1. CASE ServeNick(t)
        BY <3>1 DEF ServeNick, TypeOK
      <3>2. CASE RefuseNick(t)
        BY <3>2 DEF RefuseNick
      <3> QED
        BY <1>2, <3>1, <3>2
    <2>3. LoggingOut(t) => LoggingOut(t)'
      <3> SUFFICES ASSUME NEW i \in 1 .. Len(up[t]), up[t][i].op = "logout"
                   PROVE  LoggingOut(t)'
        BY DEF LoggingOut
      <3>1. i # 1
        BY <2>1
      <3>2. i - 1 \in 1 .. Len(up'[t]) /\ (i - 1) + 1 = i
        BY <2>1, <3>1
      <3>3. up'[t][i - 1] = up[t][i]
        BY <2>1, <3>2
      <3> QED
        BY <3>2, <3>3 DEF LoggingOut
    <2>4. \A i \in 1 .. Len(down'[t]) : down'[t][i].op # "error" =>
             i \in 1 .. Len(down[t]) /\ down'[t][i] = down[t][i]
      <3>1. CASE ServeNick(t)
        BY <3>1 DEF ServeNick
      <3>2. CASE RefuseNick(t)
        <4>1. /\ Len(down[t]) \in Nat /\ Len(down'[t]) = Len(down[t]) + 1
              /\ \A i \in 1 .. Len(down[t]) : down'[t][i] = down[t][i]
              /\ down'[t][Len(down[t]) + 1].op = "error"
          BY <3>2, TellTyped, MessagesTyped DEF RefuseNick
        <4>2. \A i \in 1 .. Len(down'[t]) : i \in 1 .. Len(down[t]) \/ i = Len(down[t]) + 1
          BY <4>1
        <4> QED
          BY <4>1, <4>2
      <3> QED
        BY <1>2, <3>1, <3>2
    <2> QED
      BY <2>1, <2>2, <2>3, <2>4 DEF IdsInFlight
  <1>3. CASE ServeLogout(t)
    <2>1. \A i \in 1 .. Len(up'[t]) : up'[t][i].op # "hello"
      BY <1>3, Reading DEF ServeLogout
    <2>2. srv'[t].id = NoId /\ UNCHANGED down
      BY <1>3 DEF ServeLogout, TypeOK
    <2> QED
      BY <2>1, <2>2 DEF IdsInFlight
  <1>4. CASE TwoSecondsPass(t)
    <2>1. srv'[t].id = srv[t].id /\ UNCHANGED <<up, down>>
      BY <1>4 DEF TwoSecondsPass, TypeOK
    <2> QED
      BY <2>1 DEF IdsInFlight, LoggingOut
  <1> QED
    BY <1>1, <1>2, <1>3, <1>4 DEF Serve

LEMMA IdsStep ==
    ASSUME AccountAssumption, Base, IdsKnown, NEW t \in Tabs, Step(t)
    PROVE  IdsKnown'
  <1> TypeOK /\ Connection(t) /\ IdsInFlight(t)
    BY DEF Base, IdsKnown
  <1> USE DEF tabVars, netVars, srvVars, noteVars
  \* What is left to show of a step that forgets nothing.
  <1>1. ASSUME UNCHANGED <<forgotten, excused>>, ids' \in Nat, ids <= ids',
               stored'.id = stored.id \/ stored'.id = settings'[t].id,
               settings'[t].id \in {stored.id, settings[t].id, ids + 1, NoId} \cup excused,
               settings'[t].id \in 0 .. ids', IdsInFlight(t)'
        PROVE  IdsKnown'
    <2>1. ids \in Nat /\ NoId \notin Gone /\ ids + 1 \notin Gone /\ excused \cap Gone = {}
      BY DEF IdsKnown, Gone, NoId, TypeOK
    <2>2. settings'[t].id \notin Gone /\ Gone' = Gone
      BY <1>1, <2>1 DEF IdsKnown, Gone
    <2>3. ASSUME NEW u \in Tabs
          PROVE  /\ settings'[u].id \in 0 .. ids' /\ settings'[u].id \notin Gone'
                 /\ IdsInFlight(u)'
      <3>1. CASE u = t
        BY <1>1, <2>2, <3>1
      <3>2. CASE u # t
        <4>1. UNCHANGED Row(u) /\ IdsInFlight(u)
          BY <3>2, Elsewhere DEF IdsKnown
        <4>2. IdsInFlight(u)'
          BY <1>1, <4>1 DEF Row, IdsInFlight, LoggingOut
        <4> QED
          BY <1>1, <2>1, <2>2, <4>1, <4>2 DEF Row, IdsKnown
      <3> QED
        BY <3>1, <3>2
    <2>4. forgotten' \subseteq 1 .. ids' /\ excused' \subseteq forgotten'
      BY <1>1, <2>1 DEF IdsKnown
    <2>5. stored'.id \in 0 .. ids' /\ stored'.id \notin Gone'
      BY <1>1, <2>1, <2>2 DEF IdsKnown
    <2> QED
      BY <2>3, <2>4, <2>5 DEF IdsKnown
  <1>2. ids \in Nat
    BY DEF TypeOK
  <1>3. CASE Load(t)
    <2>1. loadSettings.id \in {stored.id, ids + 1}
      BY DEF loadSettings
    <2>2. loadSettings.id \in 0 .. ids' /\ ids' \in Nat /\ ids <= ids'
      BY <1>2, <1>3 DEF Load, loadSettings, IdsKnown
    <2>3. /\ settings'[t] = loadSettings /\ stored' = loadSettings
          /\ UNCHANGED <<forgotten, excused, online, up, down, srv>>
      BY <1>3 DEF Load, TypeOK
    <2>4. IdsInFlight(t)'
      <3>1. Len(up[t]) = 0 /\ Len(down[t]) = 0 /\ srv[t].id = NoId
        BY <1>3, Queues DEF Load, Connection, NoServer
      <3> QED
        BY <2>3, <3>1 DEF IdsInFlight
    <2> QED
      BY <1>1, <2>1, <2>2, <2>3, <2>4
  <1>4. CASE Connect(t)
    <2>1. UNCHANGED <<stored, ids, settings, down, srv, forgotten, excused>>
      BY <1>4 DEF Connect
    <2>2. IdsInFlight(t)'
      <3>1. Len(down[t]) = 0 /\ srv[t].id = NoId
        BY <1>4, Queues DEF Connect, Connection, NoServer
      <3>2. PICK m : m.id = settings[t].id /\ up'[t] = <<m>>
        BY <1>4 DEF Connect, TypeOK
      <3>3. Len(up'[t]) = 1 /\ up'[t][1] = m
        BY <3>2
      <3> QED
        BY <2>1, <3>1, <3>2, <3>3 DEF IdsInFlight
    <2> QED
      BY <1>1, <1>2, <2>1, <2>2 DEF IdsKnown
  <1>5. ASSUME NEW n \in Nicks, open[t], SetNick(t, n)
        PROVE  IdsKnown'
    <2>1. Sends(t, [op |-> "nick", nick |-> n]) /\ settings'[t].id = settings[t].id
      BY <1>5, Sending
    <2>2. UNCHANGED <<ids, forgotten, excused>> /\ stored' = settings'[t]
      BY <1>5 DEF SetNick, Save, TypeOK
    <2>3. IdsInFlight(t)'
      BY <2>1, <2>2, IdsSent
    <2> QED
      BY <1>1, <1>2, <2>1, <2>2, <2>3 DEF IdsKnown
  <1>6. CASE \E n \in Nicks : TypeNick(t, n)
    <2>1. CASE \E n \in Nicks : SetNick(t, n)
      BY <1>5, <1>6, <2>1 DEF TypeNick, parseTripcode
    <2>2. CASE ~ \E n \in Nicks : SetNick(t, n)
      <3>1. UNCHANGED <<ids, stored, settings, forgotten, excused, up, down, srv>>
        BY <1>6, <2>2 DEF TypeNick, parseTripcode
      <3> QED
        BY <3>1 DEF IdsKnown, IdsInFlight, LoggingOut, Gone
    <2> QED
      BY <2>1, <2>2
  <1>7. CASE NickHashed(t)
    BY <1>5, <1>7, Sending
  <1>8. CASE TypeLogout(t)
    <2> DEFINE s == settings[t].id
    <2>1. /\ stored'.id = NoId /\ ids' = ids + 1 /\ settings'[t].id = ids + 1
          /\ forgotten' = forgotten \cup {s} /\ excused' \in {excused, excused \cup {s}}
      BY <1>8 DEF TypeLogout, NewSettings, Nothing, TypeOK
    <2>2. /\ online[t] /\ ~Answered(t) => s \in excused'
          /\ \A u \in Tabs \ {t} : open[u] /\ settings[u].id = s => s \in excused'
      BY <1>8 DEF TypeLogout
    <2>3. s \in 1 .. ids
      BY <1>2, <1>8 DEF TypeLogout, IdsKnown, TypeOK, NoId
    <2> HIDE DEF s
    <2>4. /\ forgotten' \subseteq 1 .. ids' /\ excused' \subseteq forgotten'
          /\ excused \subseteq excused' /\ Gone' \subseteq Gone \cup {s}
          /\ (s \in excused' => s \notin Gone')
      BY <1>2, <2>1, <2>3 DEF IdsKnown, Gone
    <2>5. ids + 1 \notin Gone' /\ NoId \notin Gone' /\ ids' \in Nat
      BY <1>2, <2>1, <2>3, <2>4 DEF Gone, NoId, IdsKnown
    <2>6. IdsInFlight(t)'
      <3>1. Sends(t, [op |-> "logout"])
        BY <1>8, Sending
      <3>2. online[t] /\ ~Answered(t) => settings[t].id \in excused'
        BY <2>2 DEF s
      <3> QED
        BY <2>4, <3>1, <3>2, IdsSent
    <2>7. ASSUME NEW u \in Tabs, u # t
          PROVE  /\ settings'[u].id \in 0 .. ids' /\ settings'[u].id \notin Gone'
                 /\ IdsInFlight(u)'
      <3>1. UNCHANGED Row(u) /\ IdsInFlight(u) /\ settings[u].id \in 0 .. ids
            /\ settings[u].id \notin Gone
        BY <2>7, Elsewhere DEF IdsKnown
      <3>2. IdsInFlight(u)'
        BY <2>4, <3>1 DEF Row, IdsInFlight, LoggingOut
      <3>3. settings[u].id = s => s \in excused'
        <4>1. ~open[u] => settings[u].id = NoId
          BY DEF Base, Connection, Nothing
        <4> QED
          BY <2>2, <2>3, <2>7, <4>1 DEF NoId
      <3>4. settings'[u].id = settings[u].id
        BY <3>1 DEF Row
      <3>5. settings[u].id \notin Gone'
        BY <2>4, <3>1, <3>3
      <3> QED
        BY <1>2, <2>1, <3>1, <3>2, <3>4, <3>5
    <2>8. settings'[t].id \in 0 .. ids' /\ stored'.id \in 0 .. ids'
      BY <1>2, <2>1 DEF NoId
    <2> QED
      BY <2>1, <2>4, <2>5, <2>6, <2>7, <2>8 DEF IdsKnown
  <1>9. CASE \E k \in Kinds, l \in Looks : TypeLook(t, k, l)
    <2>1. /\ settings'[t].id = settings[t].id /\ stored' = settings'[t]
          /\ UNCHANGED <<ids, forgotten, excused, up, down, srv>>
      BY <1>9 DEF TypeLook, applyLook, TypeOK, Settings
    <2>2. IdsInFlight(t)'
      BY <2>1 DEF IdsInFlight, LoggingOut
    <2> QED
      BY <1>1, <1>2, <2>1, <2>2 DEF IdsKnown
  <1>10. CASE Answering(t)
    <2>1. excused \subseteq 0 .. ids
      BY <1>2 DEF IdsKnown
    <2> QED
      <3>1. /\ settings'[t].id \in {settings[t].id} \cup excused
            /\ stored' \in {stored, settings'[t]} /\ IdsInFlight(t)'
            /\ UNCHANGED <<ids, forgotten, excused>>
        BY <1>10, IdsAnswered
      <3>2. settings'[t].id \in 0 .. ids'
        BY <2>1, <3>1 DEF IdsKnown
      <3> QED
        BY <1>1, <1>2, <3>1, <3>2
  <1>11. CASE Serve(t)
    <2>1. UNCHANGED <<stored, ids, settings, forgotten, excused>>
      BY <1>11 DEF Serve, HelloRestored, HelloNew, Greeted, ServeNick, RefuseNick, ServeLogout,
             TwoSecondsPass, serverFrame
    <2> QED
      BY <1>1, <1>2, <1>11, <2>1, IdsServed DEF IdsKnown
  <1>12. CASE Lose(t) \/ CloseTab(t)
    <2>1. /\ UNCHANGED <<stored, ids, forgotten, excused>>
          /\ up'[t] = <<>> /\ down'[t] = <<>> /\ srv'[t] = NoServer
      BY <1>12 DEF Lose, CloseTab, Disconnected, TypeOK
    <2>2. settings'[t] \in {settings[t], Nothing}
      BY <1>12 DEF Lose, CloseTab, TypeOK
    <2>3. settings'[t].id \in {settings[t].id, NoId}
      BY <2>2 DEF Nothing
    <2>4. IdsInFlight(t)'
      <3>1. Len(up'[t]) = 0 /\ Len(down'[t]) = 0 /\ srv'[t].id = NoId
        BY <2>1 DEF NoServer
      <3> QED
        BY <3>1 DEF IdsInFlight
    <2> QED
      BY <1>1, <1>2, <2>1, <2>3, <2>4 DEF IdsKnown, NoId
  <1> QED
    BY <1>3, <1>4, <1>6, <1>7, <1>8, <1>9, <1>10, <1>11, <1>12 DEF Step, Page, Answering

-----------------------------------------------------------------------------
(* The theorems *)

LEMMA Stutter ==
    ASSUME UNCHANGED vars
    PROVE  /\ Base => Base'
           /\ LooksInTabs => LooksInTabs'
           /\ NicksKnown => NicksKnown'
           /\ IdsKnown => IdsKnown'
  <1> USE DEF vars, tabVars, netVars, srvVars, noteVars
  <1>1. Base => Base'
    BY DEF Base, TypeOK, Connection
  <1>2. LooksInTabs => LooksInTabs'
    BY DEF LooksInTabs, ChoiceKept
  <1>3. NicksKnown => NicksKnown'
    BY DEF NicksKnown, NickInFlight, Answered
  <1>4. IdsKnown => IdsKnown'
    BY DEF IdsKnown, IdsInFlight, LoggingOut, Gone
  <1> QED
    BY <1>1, <1>2, <1>3, <1>4

LEMMA Steps ==
    ASSUME AccountAssumption, Base, [Next]_vars
    PROVE  /\ Base'
           /\ LooksInTabs => LooksInTabs'
           /\ NicksKnown => NicksKnown'
           /\ IdsKnown => IdsKnown'
  BY Stutter, ConnectionStep, LooksStep, NicksStep, IdsStep DEF Next, Step

LEMMA BaseAlways == Spec => []Base
  <1>1. Init => Base
    BY InitOK, AccountAssumption
  <1>2. Base /\ [Next]_vars => Base'
    BY Steps, AccountAssumption
  <1> QED
    BY <1>1, <1>2, PTL DEF Spec

\* Every variable keeps its type; and who is connected has a page, and that page a
\* session id to say hello with (connect, loadSettings).
THEOREM TypeCorrect == Spec => []TypeOK
  <1>1. Base => TypeOK
    BY DEF Base
  <1> QED
    BY <1>1, BaseAlways, PTL

\* Once nothing is under way, the nick that the page speaks with is the one that the
\* server speaks of, whatever was typed, lost or reopened before, in any tab; unless
\* the server refused it, or it was set before the greeting was answered.
THEOREM NicksAgree == Spec => []NickAgrees
  <1>1. Spec => []NicksKnown
    <2>1. Init => NicksKnown
      BY InitOK, AccountAssumption
    <2>2. Base /\ NicksKnown /\ [Next]_vars => NicksKnown'
      BY Steps, AccountAssumption
    <2> QED
      BY <2>1, <2>2, BaseAlways, PTL DEF Spec
  <1>2. Base /\ NicksKnown => NickAgrees
    <2> SUFFICES ASSUME Base, NicksKnown, NEW t \in Tabs, Quiet(t), ~refused[t], ~early[t]
                 PROVE  srv[t].nick = fullNick[t]
      BY DEF NickAgrees
    <2>1. DOMAIN down[t] = {}
      BY DEF Quiet
    <2>2. Answered(t)
      BY <2>1 DEF Answered, Quiet
    <2> QED
      BY <2>2 DEF NicksKnown, NickInFlight, Quiet
  <1> QED
    BY <1>1, <1>2, BaseAlways, PTL

\* A session that its last tab logged out is gone: no copy of it is left in
\* localStorage, in a tab, or in a connection on which nothing is under way
\* (the logout command, handleLogout).
THEOREM LogoutIsForgotten == Spec => []LogoutForgets
  <1>1. Spec => []IdsKnown
    <2>1. Init => IdsKnown
      BY InitOK, AccountAssumption
    <2>2. Base /\ IdsKnown /\ [Next]_vars => IdsKnown'
      BY Steps, AccountAssumption
    <2> QED
      BY <2>1, <2>2, BaseAlways, PTL DEF Spec
  <1>2. Base /\ IdsKnown => LogoutForgets
    <2> SUFFICES ASSUME Base, IdsKnown
                 PROVE  LogoutForgets
      OBVIOUS
    <2>1. NoId \notin Gone
      BY DEF IdsKnown, Gone, NoId, Base, TypeOK
    <2>2. ASSUME NEW t \in Tabs, Quiet(t)
          PROVE  srv[t].id \notin Gone
      <3>1. ~LoggingOut(t)
        <4>1. Len(up[t]) = 0
          BY <2>2 DEF Quiet
        <4> QED
          BY <4>1 DEF LoggingOut
      <3>2. srv[t].id \in {settings[t].id, NoId} \cup excused
        BY <3>1 DEF IdsKnown, IdsInFlight
      <3> QED
        BY <2>1, <3>2 DEF IdsKnown, Gone
    <2> QED
      BY <2>2 DEF LogoutForgets, IdsKnown, Gone
  <1> QED
    BY <1>1, <1>2, BaseAlways, PTL

\* The theme in store is the theme chosen last, in whichever tab, and the same holds
\* of the font, the size and the sound, each by itself: only a tab that had not seen
\* the choice undoes it, when it saves anything else (saveSettings writes all of its
\* copy), and only until a tab that has seen it saves.
THEOREM ChoiceIsKept == Spec => []ChoiceKept
  <1>1. LooksInTabs => ChoiceKept
    BY DEF LooksInTabs
  <1>2. Init => LooksInTabs
    BY InitOK, AccountAssumption
  <1>3. Base /\ LooksInTabs /\ [Next]_vars => LooksInTabs'
    BY Steps, AccountAssumption
  <1> QED
    BY <1>1, <1>2, <1>3, BaseAlways, PTL DEF Spec
=============================================================================
